---- MODULE Spec2Model ----
(***************************************************************************)
(* A model of ev.rubic.py: the three-layer storage of class RubicsCube,    *)
(* the ring accessors _side_get / _side_put, the colour-remap functions    *)
(* _side_edge_*, the two passes of RotateSide and the test drivers         *)
(* TestRotate / TestRotateRandom that call it.                             *)
(*                                                                         *)
(* Python lists are modelled as functions on 0 .. n-1 (List0), so every    *)
(* index constant keeps the value it has in the source.                    *)
(***************************************************************************)
EXTENDS Integers, Sequences, FiniteSets, TLC

VARIABLES
  cube,               \* self._cube: the three layers
  cube_solved,        \* self._cube_solved: the snapshot taken by __init__
  scratch,            \* self._0000 .. self._1030, indexed by ring position
  status,             \* "running", "exit" after an exit() branch, the name of an uncaught exception, or the final verdict
  pc,                 \* "caller" ("misused" after a request outside the domain), "permutator" after a Y_Permutator request, "remap", "steps" and "shared" for callers followed step by step, or the main program's position: "script", "random", "wind", "unwind", "done"
  last,               \* the requests a caller made so far, newest last: <<side_id, direction>> for RotateSide, <<side_id_1, side_id_2, orientation>> for Y_Permutator, <<side_id, direction, face_color, returned>> for the remap
  prev,               \* the layers before the newest of those calls
  line,               \* index of the next scripted TestRotate call (source lines 936 .. 970)
  runs,               \* number of TestRotateRandom calls started
  j,                  \* TestRotateRandom: the number of moves drawn
  rotation_list,      \* TestRotateRandom: [ -1, count, direction, side_id, ... ]
  rotate_list_cursor, \* TestRotateRandom: read position of the unwind loop
  marks,              \* the layers before each recorded move
  calls,              \* per caller, the RotateSide call it is in: its position between the four steps, its arguments and its local ring side
  lock                \* the mutual-exclusion lock of callers that share the object: whether they take it for a whole call, and who holds it

vars == <<cube, cube_solved, scratch, status, pc, last, prev, line, runs, j, rotation_list, rotate_list_cursor, marks, calls, lock>>

\* ---------------------------------------------------------------- bounds
\* RotateSide calls a caller makes
MaxCalls == 3
\* moves one TestRotateRandom call draws (the source draws 1 .. 99)
MaxWind == 2
\* TestRotateRandom calls of the main loop (the source makes 600)
MaxRuns == 1

\* calls of the colour remap a caller makes
MaxRemaps == 2
\* integers tried as a face: -FaceRange .. FaceRange
FaceRange == 8
\* integers tried as a direction: -DirectionRange .. DirectionRange
DirectionRange == 2

\* ------------------------------------------------------- program constants
CUBE_WHITE == 1
CUBE_YELLOW == 2
CUBE_RED == 3
CUBE_GREEN == 4
CUBE_ORANGE == 5
CUBE_BLUE == 6

CUBE_DELAY == 100

ROTATE_CLOCKWISE == 0
ROTATE_COUNTER == 1

CUBE_TOP == 0
CUBE_MIDDLE == 1
CUBE_BOTTOM == 2

CUBE_NULL == 0
CUBE_EDGE == 1
CUBE_CORNER == 2
CUBE_ID == 3

CUBE_TYPE == 0

CUBE_ID_0 == 1
CUBE_ID_FACE_0 == 2
CUBE_ID_SPACER == 9

CUBE_EDGE_0 == 1
CUBE_EDGE_1 == 2
CUBE_EDGE_FACE_0 == 3
CUBE_EDGE_FACE_1 == 4

CUBE_CORNER_0 == 1
CUBE_CORNER_1 == 2
CUBE_CORNER_2 == 3
CUBE_CORNER_FACE_0 == 4
CUBE_CORNER_FACE_1 == 5
CUBE_CORNER_FACE_2 == 6

TEST_ROTATE == 1
TEST_ROTATE_BACK == 2

PRINT_SIDE_LABEL == 1

_SIDE_INDEX_0000 == 0
_SIDE_INDEX_0130 == 1
_SIDE_INDEX_0300 == 2
_SIDE_INDEX_0430 == 3
_SIDE_INDEX_0600 == 4
_SIDE_INDEX_0730 == 5
_SIDE_INDEX_0900 == 6
_SIDE_INDEX_1030 == 7

\* A Python list: the function on 0 .. Len(s)-1 with the elements of s.
List0(s) == [i \in 0 .. (Len(s) - 1) |-> s[i + 1]]

\* The element of a one-element set. Only({e(x) : x \in {v}}) is e(v) with v
\* evaluated once and named x, where a LET definition is evaluated at each use.
Only(S) == CHOOSE x \in S : TRUE

Faces == CUBE_WHITE .. CUBE_BLUE
Directions == {ROTATE_CLOCKWISE, ROTATE_COUNTER}

CUBE_NIL == List0(<<CUBE_NULL, CUBE_NULL, CUBE_NULL, CUBE_NULL, CUBE_NULL, CUBE_NULL, CUBE_NULL, CUBE_NULL>>)

\* ------------------------------------------------ ring index tables
_SIDE_WHITE == List0(<<0, 1, 2, 3, 4, 5, 6, 7>>)
_SIDE_YELLOW == List0(<<0, 7, 6, 5, 4, 3, 2, 1>>)
\* _SIDE_RED with the Middle index of position 0300 one lower: the Blue Center.
_SIDE_RED_CenterAt0300 == List0(<<0, 7, 6, 7, 0, 1, 1, 1>>)
_SIDE_RED == List0(<<0, 7, 7, 7, 0, 1, 1, 1>>)
_SIDE_GREEN == List0(<<2, 1, 1, 1, 2, 3, 3, 3>>)
\* _SIDE_ORANGE with the Middle index of 0300 set to the one of Red's 0900.
_SIDE_ORANGE_RedEdgeAt0300 == List0(<<4, 3, 1, 3, 4, 5, 5, 5>>)

_SIDE_ORANGE == List0(<<4, 3, 3, 3, 4, 5, 5, 5>>)
\* _SIDE_BLUE with the Top indices of 0130 and 1030 exchanged.
_SIDE_BLUE_TopCornersExchanged == List0(<<6, 7, 5, 5, 6, 7, 7, 5>>)

_SIDE_BLUE == List0(<<6, 5, 5, 5, 6, 7, 7, 7>>)

_SIDE_INDEX == List0(<<0, _SIDE_WHITE, _SIDE_YELLOW, _SIDE_RED, _SIDE_GREEN, _SIDE_ORANGE, _SIDE_BLUE>>)

\* Python's list subscript list[ i ]: a negative i counts from the end of the list.
ListIndex(list, i) == IF i < 0 THEN i + Cardinality(DOMAIN list) ELSE i

\* What RubicsCube._SIDE_INDEX[ side_id_P ][ ... ] raises: IndexError where side_id_P
\* is outside -7 .. 6, TypeError where the element is the integer 0 (side_id_P = 0
\* or -7), and nothing ("none") where it is one of the six tables.
SideIndexError(side_id_P) ==
  IF ListIndex(_SIDE_INDEX, side_id_P) \notin DOMAIN _SIDE_INDEX THEN "IndexError"
  ELSE IF ListIndex(_SIDE_INDEX, side_id_P) = 0 THEN "TypeError"
  ELSE "none"

\* ------------------------------------------------ cell templates
EdgeCell(a, b) == List0(<<CUBE_EDGE, a, b, a, b, CUBE_ID_SPACER, CUBE_ID_SPACER>>)
CornerCell(a, b, c) == List0(<<CUBE_CORNER, a, b, c, a, b, c>>)
IdCell(a) == List0(<<CUBE_ID, a, a, CUBE_ID_SPACER, CUBE_ID_SPACER, CUBE_ID_SPACER, CUBE_ID_SPACER>>)

InitTop ==
  List0(<<EdgeCell(CUBE_WHITE, CUBE_RED), CornerCell(CUBE_WHITE, CUBE_RED, CUBE_GREEN),
          EdgeCell(CUBE_WHITE, CUBE_GREEN), CornerCell(CUBE_WHITE, CUBE_GREEN, CUBE_ORANGE),
          EdgeCell(CUBE_WHITE, CUBE_ORANGE), CornerCell(CUBE_WHITE, CUBE_ORANGE, CUBE_BLUE),
          EdgeCell(CUBE_WHITE, CUBE_BLUE), CornerCell(CUBE_WHITE, CUBE_BLUE, CUBE_RED)>>)

InitMid ==
  List0(<<IdCell(CUBE_RED), EdgeCell(CUBE_RED, CUBE_GREEN),
          IdCell(CUBE_GREEN), EdgeCell(CUBE_GREEN, CUBE_ORANGE),
          IdCell(CUBE_ORANGE), EdgeCell(CUBE_ORANGE, CUBE_BLUE),
          IdCell(CUBE_BLUE), EdgeCell(CUBE_BLUE, CUBE_RED)>>)

InitBot ==
  List0(<<EdgeCell(CUBE_YELLOW, CUBE_RED), CornerCell(CUBE_YELLOW, CUBE_GREEN, CUBE_RED),
          EdgeCell(CUBE_YELLOW, CUBE_GREEN), CornerCell(CUBE_YELLOW, CUBE_ORANGE, CUBE_GREEN),
          EdgeCell(CUBE_YELLOW, CUBE_ORANGE), CornerCell(CUBE_YELLOW, CUBE_BLUE, CUBE_ORANGE),
          EdgeCell(CUBE_YELLOW, CUBE_BLUE), CornerCell(CUBE_YELLOW, CUBE_RED, CUBE_BLUE)>>)

\* __init__: the layers are stored at CUBE_TOP, CUBE_MIDDLE, CUBE_BOTTOM.
InitCube == List0(<<InitTop, InitMid, InitBot>>)

\* ------------------------------------------------ _side_get / _side_put
\* The ring of side_id: positions 0000, 0130, 1030 read from top, 0300 and 0900 from
\* mid, 0430, 0600, 0730 from bot, where White redirects mid and bot to the Top layer
\* and Yellow redirects top and mid to the Bottom layer.
\* _side_get without the redirect of Yellow's top row to the Bottom layer.
_side_get_YellowTopRow(c, side_id) ==
  LET top == CUBE_TOP
      mid == IF side_id = CUBE_WHITE THEN CUBE_TOP
             ELSE IF side_id = CUBE_YELLOW THEN CUBE_BOTTOM ELSE CUBE_MIDDLE
      bot == IF side_id = CUBE_WHITE THEN CUBE_TOP ELSE CUBE_BOTTOM
      idx == _SIDE_INDEX[side_id]
  IN  Only({List0(<<x[top][idx[_SIDE_INDEX_0000]], x[top][idx[_SIDE_INDEX_0130]],
                    x[mid][idx[_SIDE_INDEX_0300]], x[bot][idx[_SIDE_INDEX_0430]],
                    x[bot][idx[_SIDE_INDEX_0600]], x[bot][idx[_SIDE_INDEX_0730]],
                    x[mid][idx[_SIDE_INDEX_0900]], x[top][idx[_SIDE_INDEX_1030]]>>) : x \in {c}})

_side_get(c, side_id) ==
  LET top == IF side_id = CUBE_YELLOW THEN CUBE_BOTTOM ELSE CUBE_TOP
      mid == IF side_id = CUBE_WHITE THEN CUBE_TOP
             ELSE IF side_id = CUBE_YELLOW THEN CUBE_BOTTOM ELSE CUBE_MIDDLE
      bot == IF side_id = CUBE_WHITE THEN CUBE_TOP ELSE CUBE_BOTTOM
      idx == _SIDE_INDEX[ListIndex(_SIDE_INDEX, side_id)]
  IN  Only({List0(<<x[top][idx[_SIDE_INDEX_0000]], x[top][idx[_SIDE_INDEX_0130]],
                    x[mid][idx[_SIDE_INDEX_0300]], x[bot][idx[_SIDE_INDEX_0430]],
                    x[bot][idx[_SIDE_INDEX_0600]], x[bot][idx[_SIDE_INDEX_0730]],
                    x[mid][idx[_SIDE_INDEX_0900]], x[top][idx[_SIDE_INDEX_1030]]>>) : x \in {c}})

\* _side_put without the redirect of Yellow's middle row to the Bottom layer.
_side_put_YellowMidRow(c, side_id, side_P) ==
  LET top_id == IF side_id = CUBE_YELLOW THEN CUBE_BOTTOM ELSE CUBE_TOP
      mid_id == IF side_id = CUBE_WHITE THEN CUBE_TOP ELSE CUBE_MIDDLE
      bot_id == IF side_id = CUBE_WHITE THEN CUBE_TOP ELSE CUBE_BOTTOM
      idx == _SIDE_INDEX[side_id]
  IN  Only({[[[[[[[[c EXCEPT ![top_id][idx[_SIDE_INDEX_0000]] = side[_SIDE_INDEX_0000]]
                      EXCEPT ![top_id][idx[_SIDE_INDEX_0130]] = side[_SIDE_INDEX_0130]]
                      EXCEPT ![mid_id][idx[_SIDE_INDEX_0300]] = side[_SIDE_INDEX_0300]]
                      EXCEPT ![bot_id][idx[_SIDE_INDEX_0430]] = side[_SIDE_INDEX_0430]]
                      EXCEPT ![bot_id][idx[_SIDE_INDEX_0600]] = side[_SIDE_INDEX_0600]]
                      EXCEPT ![bot_id][idx[_SIDE_INDEX_0730]] = side[_SIDE_INDEX_0730]]
                      EXCEPT ![mid_id][idx[_SIDE_INDEX_0900]] = side[_SIDE_INDEX_0900]]
                      EXCEPT ![top_id][idx[_SIDE_INDEX_1030]] = side[_SIDE_INDEX_1030]]
            : side \in {side_P}})

\* _side_put without the redirect of White's bottom row to the Top layer.
_side_put_WhiteBottomRow(c, side_id, side_P) ==
  LET top_id == IF side_id = CUBE_YELLOW THEN CUBE_BOTTOM ELSE CUBE_TOP
      mid_id == IF side_id = CUBE_YELLOW THEN CUBE_BOTTOM
                ELSE IF side_id = CUBE_WHITE THEN CUBE_TOP ELSE CUBE_MIDDLE
      bot_id == CUBE_BOTTOM
      idx == _SIDE_INDEX[side_id]
  IN  Only({[[[[[[[[c EXCEPT ![top_id][idx[_SIDE_INDEX_0000]] = side[_SIDE_INDEX_0000]]
                      EXCEPT ![top_id][idx[_SIDE_INDEX_0130]] = side[_SIDE_INDEX_0130]]
                      EXCEPT ![mid_id][idx[_SIDE_INDEX_0300]] = side[_SIDE_INDEX_0300]]
                      EXCEPT ![bot_id][idx[_SIDE_INDEX_0430]] = side[_SIDE_INDEX_0430]]
                      EXCEPT ![bot_id][idx[_SIDE_INDEX_0600]] = side[_SIDE_INDEX_0600]]
                      EXCEPT ![bot_id][idx[_SIDE_INDEX_0730]] = side[_SIDE_INDEX_0730]]
                      EXCEPT ![mid_id][idx[_SIDE_INDEX_0900]] = side[_SIDE_INDEX_0900]]
                      EXCEPT ![top_id][idx[_SIDE_INDEX_1030]] = side[_SIDE_INDEX_1030]]
            : side \in {side_P}})

\* The eight assignments of _side_put, applied one after the other in source order.
\* _side_put without either redirect: White's and Yellow's rings are stored like the
\* ring of a lateral face, over the three layers.
_side_put_NoRedirect(c, side_id, side_P) ==
  LET top_id == CUBE_TOP
      mid_id == CUBE_MIDDLE
      bot_id == CUBE_BOTTOM
      idx == _SIDE_INDEX[side_id]
  IN  Only({[[[[[[[[c EXCEPT ![top_id][idx[_SIDE_INDEX_0000]] = side[_SIDE_INDEX_0000]]
                      EXCEPT ![top_id][idx[_SIDE_INDEX_0130]] = side[_SIDE_INDEX_0130]]
                      EXCEPT ![mid_id][idx[_SIDE_INDEX_0300]] = side[_SIDE_INDEX_0300]]
                      EXCEPT ![bot_id][idx[_SIDE_INDEX_0430]] = side[_SIDE_INDEX_0430]]
                      EXCEPT ![bot_id][idx[_SIDE_INDEX_0600]] = side[_SIDE_INDEX_0600]]
                      EXCEPT ![bot_id][idx[_SIDE_INDEX_0730]] = side[_SIDE_INDEX_0730]]
                      EXCEPT ![mid_id][idx[_SIDE_INDEX_0900]] = side[_SIDE_INDEX_0900]]
                      EXCEPT ![top_id][idx[_SIDE_INDEX_1030]] = side[_SIDE_INDEX_1030]]
            : side \in {side_P}})

_side_put(c, side_id, side_P) ==
  LET top_id == IF side_id = CUBE_YELLOW THEN CUBE_BOTTOM ELSE CUBE_TOP
      mid_id == IF side_id = CUBE_YELLOW THEN CUBE_BOTTOM
                ELSE IF side_id = CUBE_WHITE THEN CUBE_TOP ELSE CUBE_MIDDLE
      bot_id == IF side_id = CUBE_WHITE THEN CUBE_TOP ELSE CUBE_BOTTOM
      idx == _SIDE_INDEX[ListIndex(_SIDE_INDEX, side_id)]
  IN  Only({[[[[[[[[c EXCEPT ![top_id][idx[_SIDE_INDEX_0000]] = side[_SIDE_INDEX_0000]]
                      EXCEPT ![top_id][idx[_SIDE_INDEX_0130]] = side[_SIDE_INDEX_0130]]
                      EXCEPT ![mid_id][idx[_SIDE_INDEX_0300]] = side[_SIDE_INDEX_0300]]
                      EXCEPT ![bot_id][idx[_SIDE_INDEX_0430]] = side[_SIDE_INDEX_0430]]
                      EXCEPT ![bot_id][idx[_SIDE_INDEX_0600]] = side[_SIDE_INDEX_0600]]
                      EXCEPT ![bot_id][idx[_SIDE_INDEX_0730]] = side[_SIDE_INDEX_0730]]
                      EXCEPT ![mid_id][idx[_SIDE_INDEX_0900]] = side[_SIDE_INDEX_0900]]
                      EXCEPT ![top_id][idx[_SIDE_INDEX_1030]] = side[_SIDE_INDEX_1030]]
            : side \in {side_P}})

\* ------------------------------------------------ colour remap (_side_edge_*)
\* The value a remap yields where the source prints "illegal face" and calls exit().
EXIT == -1

\* _side_edge_white with the bodies of its two direction branches exchanged.
_side_edge_white_BranchesSwapped(direction_P, face_color_P) ==
  IF direction_P = ROTATE_CLOCKWISE
  THEN IF face_color_P = CUBE_RED THEN CUBE_BLUE
       ELSE IF face_color_P = CUBE_BLUE THEN CUBE_ORANGE
       ELSE IF face_color_P = CUBE_ORANGE THEN CUBE_GREEN
       ELSE IF face_color_P = CUBE_GREEN THEN CUBE_RED
       ELSE EXIT
  ELSE IF face_color_P = CUBE_RED THEN CUBE_GREEN
       ELSE IF face_color_P = CUBE_GREEN THEN CUBE_ORANGE
       ELSE IF face_color_P = CUBE_ORANGE THEN CUBE_BLUE
       ELSE IF face_color_P = CUBE_BLUE THEN CUBE_RED
       ELSE EXIT

_side_edge_white(direction_P, face_color_P) ==
  IF direction_P = ROTATE_CLOCKWISE
  THEN IF face_color_P = CUBE_RED THEN CUBE_GREEN
       ELSE IF face_color_P = CUBE_GREEN THEN CUBE_ORANGE
       ELSE IF face_color_P = CUBE_ORANGE THEN CUBE_BLUE
       ELSE IF face_color_P = CUBE_BLUE THEN CUBE_RED
       ELSE EXIT
  ELSE IF face_color_P = CUBE_RED THEN CUBE_BLUE
       ELSE IF face_color_P = CUBE_BLUE THEN CUBE_ORANGE
       ELSE IF face_color_P = CUBE_ORANGE THEN CUBE_GREEN
       ELSE IF face_color_P = CUBE_GREEN THEN CUBE_RED
       ELSE EXIT

\* _side_edge_yellow handing direction_P on as it is (the flipped value is stored
\* in a variable that is not the one passed on).
_side_edge_yellow_NoFlip(direction_P, face_color_P) ==
  _side_edge_white(direction_P, face_color_P)

_side_edge_yellow(direction_P, face_color_P) ==
  _side_edge_white(IF direction_P = ROTATE_CLOCKWISE THEN ROTATE_COUNTER ELSE ROTATE_CLOCKWISE,
                   face_color_P)

\* _side_edge_red without the Yellow case of the clockwise branch.
_side_edge_red_YellowMissing(direction_P, face_color_P) ==
  IF direction_P = ROTATE_CLOCKWISE
  THEN IF face_color_P = CUBE_WHITE THEN CUBE_BLUE
       ELSE IF face_color_P = CUBE_BLUE THEN CUBE_YELLOW
       ELSE IF face_color_P = CUBE_GREEN THEN CUBE_WHITE
       ELSE EXIT
  ELSE IF face_color_P = CUBE_WHITE THEN CUBE_GREEN
       ELSE IF face_color_P = CUBE_GREEN THEN CUBE_YELLOW
       ELSE IF face_color_P = CUBE_YELLOW THEN CUBE_BLUE
       ELSE IF face_color_P = CUBE_BLUE THEN CUBE_WHITE
       ELSE EXIT

_side_edge_red(direction_P, face_color_P) ==
  IF direction_P = ROTATE_CLOCKWISE
  THEN IF face_color_P = CUBE_WHITE THEN CUBE_BLUE
       ELSE IF face_color_P = CUBE_BLUE THEN CUBE_YELLOW
       ELSE IF face_color_P = CUBE_YELLOW THEN CUBE_GREEN
       ELSE IF face_color_P = CUBE_GREEN THEN CUBE_WHITE
       ELSE EXIT
  ELSE IF face_color_P = CUBE_WHITE THEN CUBE_GREEN
       ELSE IF face_color_P = CUBE_GREEN THEN CUBE_YELLOW
       ELSE IF face_color_P = CUBE_YELLOW THEN CUBE_BLUE
       ELSE IF face_color_P = CUBE_BLUE THEN CUBE_WHITE
       ELSE EXIT

_side_edge_orange(direction_P, face_color_P) ==
  _side_edge_red(IF direction_P = ROTATE_CLOCKWISE THEN ROTATE_COUNTER ELSE ROTATE_CLOCKWISE,
                 face_color_P)

_side_edge_green(direction_P, face_color_P) ==
  IF direction_P = ROTATE_CLOCKWISE
  THEN IF face_color_P = CUBE_WHITE THEN CUBE_RED
       ELSE IF face_color_P = CUBE_RED THEN CUBE_YELLOW
       ELSE IF face_color_P = CUBE_YELLOW THEN CUBE_ORANGE
       ELSE IF face_color_P = CUBE_ORANGE THEN CUBE_WHITE
       ELSE EXIT
  ELSE IF face_color_P = CUBE_WHITE THEN CUBE_ORANGE
       ELSE IF face_color_P = CUBE_ORANGE THEN CUBE_YELLOW
       ELSE IF face_color_P = CUBE_YELLOW THEN CUBE_RED
       ELSE IF face_color_P = CUBE_RED THEN CUBE_WHITE
       ELSE EXIT

\* _side_edge_blue handing direction_P on as it is.
_side_edge_blue_NoFlip(direction_P, face_color_P) ==
  _side_edge_green(direction_P, face_color_P)

_side_edge_blue(direction_P, face_color_P) ==
  _side_edge_green(IF direction_P = ROTATE_CLOCKWISE THEN ROTATE_COUNTER ELSE ROTATE_CLOCKWISE,
                   face_color_P)

_side_edge_face_get(direction_P, side_id_P, face_color_P) ==
  IF side_id_P = CUBE_WHITE THEN _side_edge_white(direction_P, face_color_P)
  ELSE IF side_id_P = CUBE_YELLOW THEN _side_edge_yellow(direction_P, face_color_P)
  ELSE IF side_id_P = CUBE_RED THEN _side_edge_red(direction_P, face_color_P)
  ELSE IF side_id_P = CUBE_GREEN THEN _side_edge_green(direction_P, face_color_P)
  ELSE IF side_id_P = CUBE_ORANGE THEN _side_edge_orange(direction_P, face_color_P)
  ELSE IF side_id_P = CUBE_BLUE THEN _side_edge_blue(direction_P, face_color_P)
  ELSE EXIT

\* ------------------------------------------------ face remap pass
\* _rotate_face_edge_plus_cube_delay without the CUBE_DELAY mark: a binding rebound
\* for one edge can be taken for the old side of the next edge.
_rotate_face_edge_plus_cube_delay_NoDelay(cell_P, edge_P, edge_cell_P, edge_face_P) ==
  IF cell_P[CUBE_CORNER_FACE_0] = edge_P
  THEN [cell_P EXCEPT ![CUBE_CORNER_FACE_0] = edge_cell_P[edge_face_P]]
  ELSE IF cell_P[CUBE_CORNER_FACE_1] = edge_P
  THEN [cell_P EXCEPT ![CUBE_CORNER_FACE_1] = edge_cell_P[edge_face_P]]
  ELSE IF cell_P[CUBE_CORNER_FACE_2] = edge_P
  THEN [cell_P EXCEPT ![CUBE_CORNER_FACE_2] = edge_cell_P[edge_face_P]]
  ELSE cell_P

\* _rotate_face_edge_plus_cube_delay writing the sticker's colour field instead of
\* its binding (CUBE_CORNER_0 .. 2 for CUBE_CORNER_FACE_0 .. 2).
_rotate_face_edge_plus_cube_delay_ColourField(cell_P, edge_P, edge_cell_P, edge_face_P) ==
  IF cell_P[CUBE_CORNER_FACE_0] = edge_P
  THEN [cell_P EXCEPT ![CUBE_CORNER_0] = edge_cell_P[edge_face_P] + CUBE_DELAY]
  ELSE IF cell_P[CUBE_CORNER_FACE_1] = edge_P
  THEN [cell_P EXCEPT ![CUBE_CORNER_1] = edge_cell_P[edge_face_P] + CUBE_DELAY]
  ELSE IF cell_P[CUBE_CORNER_FACE_2] = edge_P
  THEN [cell_P EXCEPT ![CUBE_CORNER_2] = edge_cell_P[edge_face_P] + CUBE_DELAY]
  ELSE cell_P

\* _rotate_face_edge_plus_cube_delay storing the new side in CUBE_CORNER_FACE_0
\* whichever of the three bindings equals the edge's old side.
_rotate_face_edge_plus_cube_delay_FirstField(cell_P, edge_P, edge_cell_P, edge_face_P) ==
  IF \/ cell_P[CUBE_CORNER_FACE_0] = edge_P
     \/ cell_P[CUBE_CORNER_FACE_1] = edge_P
     \/ cell_P[CUBE_CORNER_FACE_2] = edge_P
  THEN [cell_P EXCEPT ![CUBE_CORNER_FACE_0] = edge_cell_P[edge_face_P] + CUBE_DELAY]
  ELSE cell_P

\* _rotate_face_edge_plus_cube_delay comparing the bindings without their CUBE_DELAY
\* mark: a binding already rebound in this call is rebound again.
_rotate_face_edge_plus_cube_delay_MarkIgnored(cell_P, edge_P, edge_cell_P, edge_face_P) ==
  IF cell_P[CUBE_CORNER_FACE_0] % CUBE_DELAY = edge_P
  THEN [cell_P EXCEPT ![CUBE_CORNER_FACE_0] = edge_cell_P[edge_face_P] + CUBE_DELAY]
  ELSE IF cell_P[CUBE_CORNER_FACE_1] % CUBE_DELAY = edge_P
  THEN [cell_P EXCEPT ![CUBE_CORNER_FACE_1] = edge_cell_P[edge_face_P] + CUBE_DELAY]
  ELSE IF cell_P[CUBE_CORNER_FACE_2] % CUBE_DELAY = edge_P
  THEN [cell_P EXCEPT ![CUBE_CORNER_FACE_2] = edge_cell_P[edge_face_P] + CUBE_DELAY]
  ELSE cell_P

\* The first of the corner's three bindings that equals the edge's old side is
\* rebound to the edge's new side, marked with CUBE_DELAY.
_rotate_face_edge_plus_cube_delay(cell_P, edge_P, edge_cell_P, edge_face_P) ==
  IF cell_P[CUBE_CORNER_FACE_0] = edge_P
  THEN [cell_P EXCEPT ![CUBE_CORNER_FACE_0] = edge_cell_P[edge_face_P] + CUBE_DELAY]
  ELSE IF cell_P[CUBE_CORNER_FACE_1] = edge_P
  THEN [cell_P EXCEPT ![CUBE_CORNER_FACE_1] = edge_cell_P[edge_face_P] + CUBE_DELAY]
  ELSE IF cell_P[CUBE_CORNER_FACE_2] = edge_P
  THEN [cell_P EXCEPT ![CUBE_CORNER_FACE_2] = edge_cell_P[edge_face_P] + CUBE_DELAY]
  ELSE cell_P

\* One edge of the ring and its two corners. The three cells are scratch slots, named
\* here by their ring positions in the slot function s; other is the index of the
\* edge's binding that is not side_id_P. The result is the new slots and whether the
\* remap took an exit() branch (before any assignment of this call).
\* RemapEdge keeping the edge's own binding: only the two corners are rebound.
RemapEdge_EdgeKept(side_id_P, direction_P, s, corner_left_P, edge_P, corner_right_P, other) ==
  LET edge == s[edge_P][other]
      new == _side_edge_face_get(direction_P, side_id_P, edge)
      cell == [s[edge_P] EXCEPT ![other] = new]
  IN  IF new = EXIT
      THEN [slots |-> s, exit |-> TRUE]
      ELSE [slots |->
              [s EXCEPT
                 ![corner_left_P] = _rotate_face_edge_plus_cube_delay(s[corner_left_P], edge, cell, other),
                 ![corner_right_P] = _rotate_face_edge_plus_cube_delay(s[corner_right_P], edge, cell, other)],
            exit |-> FALSE]

RemapEdge(side_id_P, direction_P, s, corner_left_P, edge_P, corner_right_P, other) ==
  LET edge == s[edge_P][other]
      new == _side_edge_face_get(direction_P, side_id_P, edge)
      cell == [s[edge_P] EXCEPT ![other] = new]
  IN  IF new = EXIT
      THEN [slots |-> s, exit |-> TRUE]
      ELSE [slots |->
              [s EXCEPT
                 ![edge_P] = cell,
                 ![corner_left_P] = _rotate_face_edge_plus_cube_delay(s[corner_left_P], edge, cell, other),
                 ![corner_right_P] = _rotate_face_edge_plus_cube_delay(s[corner_right_P], edge, cell, other)],
            exit |-> FALSE]

_rotate_face_edge(side_id_P, direction_P, slots, corner_left_P, edge_P, corner_right_P) ==
  Only({IF s[edge_P][CUBE_EDGE_FACE_0] = side_id_P
        THEN RemapEdge(side_id_P, direction_P, s, corner_left_P, edge_P, corner_right_P,
                       CUBE_EDGE_FACE_1)
        ELSE IF s[edge_P][CUBE_EDGE_FACE_1] = side_id_P
        THEN RemapEdge(side_id_P, direction_P, s, corner_left_P, edge_P, corner_right_P,
                       CUBE_EDGE_FACE_0)
        ELSE [slots |-> s, exit |-> FALSE]
        : s \in {slots}})

\* _face_minus_cube_delay_face comparing with CUBE_DELAY + CUBE_BLUE: no marked
\* binding is above it, so the CUBE_DELAY mark is never taken off.
_face_minus_cube_delay_face_MarkKept(cell_P, face_P) ==
  IF cell_P[face_P] > CUBE_DELAY + CUBE_BLUE
  THEN [cell_P EXCEPT ![face_P] = cell_P[face_P] - CUBE_DELAY]
  ELSE cell_P

_face_minus_cube_delay_face(cell_P, face_P) ==
  IF cell_P[face_P] > CUBE_BLUE
  THEN [cell_P EXCEPT ![face_P] = cell_P[face_P] - CUBE_DELAY]
  ELSE cell_P

_face_minus_cube_delay(cell_P) ==
  Only({Only({Only({_face_minus_cube_delay_face(c2, CUBE_CORNER_FACE_2)
                    : c2 \in {_face_minus_cube_delay_face(c1, CUBE_CORNER_FACE_1)}})
              : c1 \in {_face_minus_cube_delay_face(c0, CUBE_CORNER_FACE_0)}})
        : c0 \in {cell_P}})

\* _side_assign storing _0300_P at 0900 and _0900_P at 0300.
_side_assign_Exchanged(side_P, _0000_P, _0300_P, _0600_P, _0900_P, _0130_P, _0430_P, _0730_P, _1030_P) ==
  [side_P EXCEPT ![_SIDE_INDEX_0000] = _0000_P,
                 ![_SIDE_INDEX_0300] = _0900_P,
                 ![_SIDE_INDEX_0600] = _0600_P,
                 ![_SIDE_INDEX_0900] = _0300_P,
                 ![_SIDE_INDEX_0130] = _0130_P,
                 ![_SIDE_INDEX_0430] = _0430_P,
                 ![_SIDE_INDEX_0730] = _0730_P,
                 ![_SIDE_INDEX_1030] = _1030_P]

_side_assign(side_P, _0000_P, _0300_P, _0600_P, _0900_P, _0130_P, _0430_P, _0730_P, _1030_P) ==
  [side_P EXCEPT ![_SIDE_INDEX_0000] = _0000_P,
                 ![_SIDE_INDEX_0300] = _0300_P,
                 ![_SIDE_INDEX_0600] = _0600_P,
                 ![_SIDE_INDEX_0900] = _0900_P,
                 ![_SIDE_INDEX_0130] = _0130_P,
                 ![_SIDE_INDEX_0430] = _0430_P,
                 ![_SIDE_INDEX_0730] = _0730_P,
                 ![_SIDE_INDEX_1030] = _1030_P]

\* _side_deepcopy: the scratch slots become copies of the ring's cells.
_side_deepcopy(side_P) ==
  Only({List0(<<s[_SIDE_INDEX_0000], s[_SIDE_INDEX_0130], s[_SIDE_INDEX_0300],
                s[_SIDE_INDEX_0430], s[_SIDE_INDEX_0600], s[_SIDE_INDEX_0730],
                s[_SIDE_INDEX_0900], s[_SIDE_INDEX_1030]>>) : s \in {side_P}})

\* An edge is processed only if no earlier edge of this call took an exit() branch.
ThenEdge(result, side_id_P, direction_P, corner_left_P, edge_P, corner_right_P) ==
  Only({IF r.exit THEN r
        ELSE _rotate_face_edge(side_id_P, direction_P, r.slots, corner_left_P, edge_P, corner_right_P)
        : r \in {result}})

\* The four _rotate_face_edge calls of _rotate_faces, in source order.
RemapEdges(direction_P, side_id_P, slots) ==
  ThenEdge(
    ThenEdge(
      ThenEdge(
        _rotate_face_edge(side_id_P, direction_P, slots,
                          _SIDE_INDEX_1030, _SIDE_INDEX_0000, _SIDE_INDEX_0130),
        side_id_P, direction_P, _SIDE_INDEX_0130, _SIDE_INDEX_0300, _SIDE_INDEX_0430),
      side_id_P, direction_P, _SIDE_INDEX_0430, _SIDE_INDEX_0600, _SIDE_INDEX_0730),
    side_id_P, direction_P, _SIDE_INDEX_0730, _SIDE_INDEX_0900, _SIDE_INDEX_1030)

\* The four _face_minus_cube_delay calls of _rotate_faces.
RemoveDelays(slots) ==
  [slots EXCEPT
     ![_SIDE_INDEX_1030] = _face_minus_cube_delay(@),
     ![_SIDE_INDEX_0130] = _face_minus_cube_delay(@),
     ![_SIDE_INDEX_0430] = _face_minus_cube_delay(@),
     ![_SIDE_INDEX_0730] = _face_minus_cube_delay(@)]

\* _rotate_faces after its _side_deepcopy call, on the scratch slots it then holds:
\* the ring, the scratch slots, and whether the process called exit().
RemapRing(direction_P, side_id_P, side_P, slots) ==
  Only({IF s4.exit
        THEN [side |-> side_P, scratch |-> s4.slots, exit |-> TRUE]
        ELSE Only({[side |-> _side_assign(side_P, s5[_SIDE_INDEX_0000], s5[_SIDE_INDEX_0300],
                                          s5[_SIDE_INDEX_0600], s5[_SIDE_INDEX_0900],
                                          s5[_SIDE_INDEX_0130], s5[_SIDE_INDEX_0430],
                                          s5[_SIDE_INDEX_0730], s5[_SIDE_INDEX_1030]),
                    scratch |-> s5, exit |-> FALSE]
                   : s5 \in {RemoveDelays(s4.slots)}})
        : s4 \in {RemapEdges(direction_P, side_id_P, slots)}})

_rotate_faces(direction_P, side_id_P, side_P) ==
  RemapRing(direction_P, side_id_P, side_P, _side_deepcopy(side_P))

\* ------------------------------------------------ position permutation pass
\* _rotate_colors with the corners of the counter-clockwise branch shifted clockwise.
_rotate_colors_CornersClockwise(direction_P, side_id_P, side_P) ==
  Only({[scratch |-> s,
         side |->
           IF direction_P = ROTATE_CLOCKWISE
           THEN _side_assign(side_P, s[_SIDE_INDEX_0900], s[_SIDE_INDEX_0000],
                             s[_SIDE_INDEX_0300], s[_SIDE_INDEX_0600],
                             s[_SIDE_INDEX_1030], s[_SIDE_INDEX_0130],
                             s[_SIDE_INDEX_0430], s[_SIDE_INDEX_0730])
           ELSE _side_assign(side_P, s[_SIDE_INDEX_0300], s[_SIDE_INDEX_0600],
                             s[_SIDE_INDEX_0900], s[_SIDE_INDEX_0000],
                             s[_SIDE_INDEX_1030], s[_SIDE_INDEX_0130],
                             s[_SIDE_INDEX_0430], s[_SIDE_INDEX_0730])]
        : s \in {_side_deepcopy(side_P)}})

\* _rotate_colors moving every cell one ring position on instead of two.
_rotate_colors_ByOne(direction_P, side_id_P, side_P) ==
  Only({[scratch |-> s,
         side |-> _side_assign(side_P, s[_SIDE_INDEX_1030], s[_SIDE_INDEX_0130],
                               s[_SIDE_INDEX_0430], s[_SIDE_INDEX_0730],
                               s[_SIDE_INDEX_0000], s[_SIDE_INDEX_0300],
                               s[_SIDE_INDEX_0600], s[_SIDE_INDEX_0900])]
        : s \in {_side_deepcopy(side_P)}})

\* _rotate_colors after its _side_deepcopy call, on the scratch slots it then holds.
PermuteRing(direction_P, side_id_P, side_P, slots) ==
  Only({[scratch |-> s,
         side |->
           IF direction_P = ROTATE_CLOCKWISE
           THEN _side_assign(side_P, s[_SIDE_INDEX_0900], s[_SIDE_INDEX_0000],
                             s[_SIDE_INDEX_0300], s[_SIDE_INDEX_0600],
                             s[_SIDE_INDEX_1030], s[_SIDE_INDEX_0130],
                             s[_SIDE_INDEX_0430], s[_SIDE_INDEX_0730])
           ELSE _side_assign(side_P, s[_SIDE_INDEX_0300], s[_SIDE_INDEX_0600],
                             s[_SIDE_INDEX_0900], s[_SIDE_INDEX_0000],
                             s[_SIDE_INDEX_0430], s[_SIDE_INDEX_0730],
                             s[_SIDE_INDEX_1030], s[_SIDE_INDEX_0130])]
        : s \in {slots}})

_rotate_colors(direction_P, side_id_P, side_P) ==
  PermuteRing(direction_P, side_id_P, side_P, _side_deepcopy(side_P))

\* ------------------------------------------------ RotateSide
\* RotateSide without the final _side_put: the rotated ring is never written back.
RotateRing_NoPut(c, side_id_P, direction_P, side) ==
  Only({IF f.exit
        THEN [cube |-> c, scratch |-> f.scratch, exit |-> TRUE]
        ELSE Only({[cube |-> c, scratch |-> r.scratch, exit |-> FALSE]
                   : r \in {_rotate_colors(direction_P, side_id_P, f.side)}})
        : f \in {_rotate_faces(direction_P, side_id_P, side)}})

\* The passes of RotateSide after the ring was read, on layers c and ring side: the
\* layers, the scratch slots, and whether the process called exit() (then before
\* _side_put, so the layers are the ones before the call).
RotateRing(c, side_id_P, direction_P, side) ==
  Only({IF f.exit
        THEN [cube |-> c, scratch |-> f.scratch, exit |-> TRUE]
        ELSE Only({[cube |-> _side_put(c, side_id_P, r.side), scratch |-> r.scratch, exit |-> FALSE]
                   : r \in {_rotate_colors(direction_P, side_id_P, f.side)}})
        : f \in {_rotate_faces(direction_P, side_id_P, side)}})

\* The object after RotateSide(side_id_P, direction_P) on layers layers.
RotateSide(layers, side_id_P, direction_P) ==
  Only({RotateRing(c, side_id_P, direction_P, _side_get(c, side_id_P)) : c \in {layers}})

\* The layers after the call.
Rotated(c, side_id_P, direction_P) == RotateSide(c, side_id_P, direction_P).cube

\* ------------------------------------------------ visible colours (PrintSide)
_side_edge_color_get(side_id_P, side_P, side_index_P) ==
  IF side_id_P = side_P[side_index_P][CUBE_EDGE_FACE_0] THEN side_P[side_index_P][CUBE_EDGE_0]
  ELSE IF side_id_P = side_P[side_index_P][CUBE_EDGE_FACE_1] THEN side_P[side_index_P][CUBE_EDGE_1]
  ELSE EXIT

_side_corner_color_get(side_id_P, side_P, side_index_P) ==
  IF side_id_P = side_P[side_index_P][CUBE_CORNER_FACE_0] THEN side_P[side_index_P][CUBE_CORNER_0]
  ELSE IF side_id_P = side_P[side_index_P][CUBE_CORNER_FACE_1] THEN side_P[side_index_P][CUBE_CORNER_1]
  ELSE IF side_id_P = side_P[side_index_P][CUBE_CORNER_FACE_2] THEN side_P[side_index_P][CUBE_CORNER_2]
  ELSE EXIT

\* The colour PrintSide shows at ring position pos of side_id: corners at the four
\* half-hour positions, edges at the four full-hour positions.
RingColor(side_id, side, pos) ==
  IF pos \in {_SIDE_INDEX_0130, _SIDE_INDEX_0430, _SIDE_INDEX_0730, _SIDE_INDEX_1030}
  THEN _side_corner_color_get(side_id, side, pos)
  ELSE _side_edge_color_get(side_id, side, pos)

VisibleColor(c, side_id, pos) == RingColor(side_id, _side_get(c, side_id), pos)

\* Whether PrintSide(flag_P, side_id_P) ends in exit(): its output is not modelled.
PrintSide(c, flag_P, side_id_P) ==
  \/ flag_P = PRINT_SIDE_LABEL /\ side_id_P \notin Faces
  \/ \E side \in {_side_get(c, side_id_P)} : \E pos \in 0 .. 7 : RingColor(side_id_P, side, pos) = EXIT

\* ------------------------------------------------ TestRotate
\* The object after n consecutive RotateSide(side_id, direction) calls on layers c,
\* as the loop of TestRotate makes them; a call that exits ends the process.
RECURSIVE Turns(_, _, _, _, _)
Turns(c, sc, side_id, direction, n) ==
  IF n = 0 THEN [cube |-> c, scratch |-> sc, exit |-> FALSE]
  ELSE Only({IF r.exit THEN r ELSE Turns(r.cube, r.scratch, side_id, direction, n - 1)
             : r \in {RotateSide(c, side_id, direction)}})

\* The sides TestRotate prints after the turns, in order.
TestRotatePrints(flag_P, side_id_P) ==
  LET shown == IF side_id_P = CUBE_WHITE \/ side_id_P = CUBE_YELLOW
               THEN <<CUBE_RED, CUBE_GREEN, CUBE_ORANGE, CUBE_BLUE>>
               ELSE IF side_id_P = CUBE_RED
               THEN <<CUBE_WHITE, CUBE_YELLOW, CUBE_GREEN, CUBE_BLUE>>
               ELSE IF side_id_P = CUBE_GREEN
               THEN <<CUBE_WHITE, CUBE_YELLOW, CUBE_RED, CUBE_ORANGE>>
               ELSE IF side_id_P = CUBE_ORANGE
               THEN <<CUBE_WHITE, CUBE_YELLOW, CUBE_GREEN, CUBE_BLUE>>
               ELSE <<CUBE_WHITE, CUBE_YELLOW, CUBE_ORANGE, CUBE_RED>>
      missing == IF side_id_P = CUBE_WHITE \/ side_id_P = CUBE_YELLOW
                 THEN <<CUBE_WHITE, CUBE_YELLOW>>
                 ELSE IF side_id_P = CUBE_RED \/ side_id_P = CUBE_ORANGE
                 THEN <<CUBE_RED, CUBE_ORANGE>>
                 ELSE <<CUBE_GREEN, CUBE_BLUE>>
  IN  IF flag_P = TEST_ROTATE_BACK THEN shown \o missing ELSE shown

\* _test_resolve_msg: with TEST_ROTATE_BACK, a cube that is not solved ends in exit().
_test_resolve_msg(flag_P, status_P) == flag_P = TEST_ROTATE_BACK /\ ~status_P

\* The object after TestRotate(flag_P, msg, side_id_P, direction_P, iterations_P).
TestRotate(c, sc, solved, flag_P, side_id_P, direction_P, iterations_P) ==
  LET prints == TestRotatePrints(flag_P, side_id_P)
  IN  Only({IF t.exit THEN t
            ELSE [t EXCEPT !.exit =
                    \/ \E k \in 1 .. Len(prints) : PrintSide(t.cube, PRINT_SIDE_LABEL, prints[k])
                    \/ _test_resolve_msg(flag_P, t.cube = solved)]
            : t \in {Turns(c, sc, side_id_P, direction_P, iterations_P)}})

\* ------------------------------------------------ the scripted test (lines 936 .. 970)
ScriptSides == <<CUBE_WHITE, CUBE_YELLOW, CUBE_RED, CUBE_ORANGE, CUBE_GREEN, CUBE_BLUE>>
ScriptFlags == <<TEST_ROTATE, TEST_ROTATE, TEST_ROTATE, TEST_ROTATE, TEST_ROTATE_BACK>>
ScriptIterations == <<1, TEST_ROTATE_BACK, 3, 4, 2>>
ScriptLength == Len(ScriptSides) * Len(ScriptFlags)

\* ------------------------------------------------ TestRotateRandom
\* The values random.randrange( 0, 4 + 1, 1 ) draws for count.
Counts == 0 .. 4

\* The three appends of the wind loop.
Recorded(list, side_id, direction, count) == list \o <<count, direction, side_id>>

\* The unwind loop without the flip of the direction.
UnwindMove_NoFlip(list, cur) ==
  [side_id |-> list[cur + 1],
   direction |-> list[cur],
   count |-> list[cur - 1],
   cursor |-> cur - 3]

\* The move the unwind loop reads at cursor position cur of the list (a sequence
\* whose element k + 1 is the Python list's element k): side_id, then direction
\* (flipped), then count, each followed by a decrement of the cursor.
UnwindMove(list, cur) ==
  [side_id |-> list[cur + 1],
   direction |-> IF list[cur] = ROTATE_CLOCKWISE THEN ROTATE_COUNTER ELSE ROTATE_CLOCKWISE,
   count |-> list[cur - 1],
   cursor |-> cur - 3]

\* The callers that can share one object, and a caller that is in no call.
Callers == {1, 2}
NoCalls == [t \in Callers |-> [at |-> "idle", side_id |-> 0, direction |-> 0, side |-> <<>>, made |-> 0]]
\* The lock when no caller takes it.
NoLock == [whole_call |-> FALSE, holder |-> 0]

\* __init__ storing the layers themselves as the snapshot (no copy.deepcopy): the
\* writes of _side_put reach it, and it is the current layers after every call.
Snapshot_Alias(snapshot, layers) == layers

\* The snapshot self._cube_solved after a call that left self._cube as layers: it is
\* a deep copy (line 296) that shares no list with self._cube and is assigned nowhere
\* else, so it is the snapshot before the call.
Snapshot(snapshot, layers) == snapshot

Init ==
  /\ cube = InitCube
  /\ cube_solved = InitCube
  /\ scratch = [pos \in 0 .. 7 |-> CUBE_NIL]
  /\ status = "running"
  /\ pc = "caller"
  /\ last = <<>>
  /\ prev = InitCube
  /\ line = 0
  /\ runs = 0
  /\ j = 0
  /\ rotation_list = <<>>
  /\ rotate_list_cursor = 0
  /\ marks = <<>>
  /\ calls = NoCalls
  /\ lock = NoLock

\* A caller requests one rotation: the whole RotateSide call.
CallRotateSide ==
  /\ pc = "caller"
  /\ status = "running"
  /\ Len(last) < MaxCalls
  /\ \E side_id \in Faces, direction \in Directions :
       \E r \in {RotateSide(cube, side_id, direction)} :
           /\ cube' = r.cube
           /\ cube_solved' = Snapshot(cube_solved, r.cube)
           /\ scratch' = r.scratch
           /\ status' = IF r.exit THEN "exit" ELSE "running"
           /\ last' = Append(last, <<side_id, direction>>)
           /\ prev' = cube
  /\ UNCHANGED <<pc, line, runs, j, rotation_list, rotate_list_cursor, marks, calls, lock>>

Next == CallRotateSide

Spec == Init /\ [][Next]_vars

\* ------------------------------------------------ requests outside the valid domain
\* The integers a caller passes for a face that is none of the six, and for a
\* direction that is none of the two.
BadFaces == (-FaceRange .. FaceRange) \ Faces
BadDirections == (-DirectionRange .. DirectionRange) \ Directions

\* The ways a request ends the process: exit(), or an exception nobody catches.
Fatal == {"exit", "TypeError", "IndexError"}

\* _side_get( side_id_P ) for any integer: the exception of the first subscript
\* _SIDE_INDEX[ side_id_P ][ ... ] (line 313), or the ring.
SideGetRequest(c, side_id_P) ==
  IF SideIndexError(side_id_P) # "none"
  THEN [error |-> SideIndexError(side_id_P), side |-> CUBE_NIL]
  ELSE [error |-> "none", side |-> _side_get(c, side_id_P)]

\* RotateSide( side_id_P, direction_P ) for any two integers: an exception of
\* _side_get (line 652) leaves the layers and the scratch slots as they are;
\* otherwise the passes of RotateSide run on the ring that was read.
RotateSideRequest(layers, sc, side_id_P, direction_P) ==
  IF SideIndexError(side_id_P) # "none"
  THEN [cube |-> layers, scratch |-> sc, exit |-> FALSE, error |-> SideIndexError(side_id_P)]
  ELSE Only({[cube |-> r.cube, scratch |-> r.scratch, exit |-> r.exit, error |-> "none"]
             : r \in {RotateSide(layers, side_id_P, direction_P)}})

\* How the process goes on after a request with that result.
StatusAfter(error, exit) ==
  IF error # "none" THEN error ELSE IF exit THEN "exit" ELSE "running"

\* A caller requests a rotation of a face that is none of the six.
CallRotateSideBadFace ==
  /\ pc = "caller"
  /\ status = "running"
  /\ Len(last) < MaxCalls
  /\ \E side_id \in BadFaces, direction \in Directions :
       \E r \in {RotateSideRequest(cube, scratch, side_id, direction)} :
           /\ cube' = r.cube
           /\ cube_solved' = Snapshot(cube_solved, r.cube)
           /\ scratch' = r.scratch
           /\ status' = StatusAfter(r.error, r.exit)
           /\ last' = Append(last, <<side_id, direction>>)
           /\ prev' = cube
  /\ pc' = "misused"
  /\ UNCHANGED <<line, runs, j, rotation_list, rotate_list_cursor, marks, calls, lock>>

\* A caller requests the ring of a face that is none of the six.
CallSideGetBadFace ==
  /\ pc = "caller"
  /\ status = "running"
  /\ Len(last) < MaxCalls
  /\ \E side_id \in BadFaces :
       \E r \in {SideGetRequest(cube, side_id)} :
           /\ status' = StatusAfter(r.error, FALSE)
           /\ last' = Append(last, <<side_id>>)
           /\ prev' = cube
  /\ pc' = "misused"
  /\ UNCHANGED <<cube, cube_solved, scratch, line, runs, j, rotation_list, rotate_list_cursor, marks, calls, lock>>

\* A caller requests a rotation of one of the six faces in a direction that is
\* none of the two.
CallRotateSideBadDirection ==
  /\ pc = "caller"
  /\ status = "running"
  /\ Len(last) < MaxCalls
  /\ \E side_id \in Faces, direction \in BadDirections :
       \E r \in {RotateSideRequest(cube, scratch, side_id, direction)} :
           /\ cube' = r.cube
           /\ cube_solved' = Snapshot(cube_solved, r.cube)
           /\ scratch' = r.scratch
           /\ status' = StatusAfter(r.error, r.exit)
           /\ last' = Append(last, <<side_id, direction>>)
           /\ prev' = cube
  /\ pc' = "misused"
  /\ UNCHANGED <<line, runs, j, rotation_list, rotate_list_cursor, marks, calls, lock>>

\* A caller makes valid RotateSide calls and then one request outside the domain;
\* the model follows the process up to the outcome of that request.
NextMisuse ==
  \/ CallRotateSide
  \/ CallRotateSideBadFace
  \/ CallSideGetBadFace
  \/ CallRotateSideBadDirection

SpecMisuse == Init /\ [][NextMisuse]_vars

\* ------------------------------------------------ rings that are not well formed
\* The integers -6 .. -1: as a subscript of _SIDE_INDEX they count from its end and
\* select the tables of White .. Blue, and they equal no side a cell is bound to.
FacesFromEnd == {0 - side_id : side_id \in Faces}

\* A caller requests a rotation with one of those integers: the call completes, the
\* cells of the selected ring move without being rebound, and the caller goes on
\* with the layers it leaves.
CallRotateSideFromEnd ==
  /\ pc = "caller"
  /\ status = "running"
  /\ Len(last) < MaxCalls
  /\ \E side_id \in FacesFromEnd, direction \in Directions :
       \E r \in {RotateSideRequest(cube, scratch, side_id, direction)} :
           /\ cube' = r.cube
           /\ cube_solved' = Snapshot(cube_solved, r.cube)
           /\ scratch' = r.scratch
           /\ status' = StatusAfter(r.error, r.exit)
           /\ last' = Append(last, <<side_id, direction>>)
           /\ prev' = cube
  /\ UNCHANGED <<pc, line, runs, j, rotation_list, rotate_list_cursor, marks, calls, lock>>

NextMalformed ==
  \/ CallRotateSide
  \/ CallRotateSideFromEnd

SpecMalformed == Init /\ [][NextMalformed]_vars

\* ------------------------------------------------ Y_Permutator
\* _y_permutator_core: four RotateSide calls; an exit() in one of them ends the
\* process before the next.
_y_permutator_core(c, sc, side_id_1_P, side_id_2_P, rotate_bracket_P, rotate_mid_P) ==
  Only({IF r1.exit THEN [cube |-> r1.cube, scratch |-> r1.scratch, exit |-> TRUE, error |-> "none"]
        ELSE Only({IF r2.exit THEN [cube |-> r2.cube, scratch |-> r2.scratch, exit |-> TRUE, error |-> "none"]
                   ELSE Only({IF r3.exit THEN [cube |-> r3.cube, scratch |-> r3.scratch, exit |-> TRUE, error |-> "none"]
                              ELSE Only({[cube |-> r4.cube, scratch |-> r4.scratch, exit |-> r4.exit, error |-> "none"]
                                         : r4 \in {RotateSide(r3.cube, side_id_2_P, rotate_bracket_P)}})
                              : r3 \in {RotateSide(r2.cube, side_id_1_P, rotate_mid_P)}})
                   : r2 \in {RotateSide(r1.cube, side_id_2_P, rotate_mid_P)}})
        : r1 \in {RotateSide(c, side_id_1_P, rotate_bracket_P)}})

\* A call self._y_permutator_core( ... ) with the positional arguments args: the
\* method takes four besides the bound self, and Python raises TypeError before
\* its body runs when it is given another number.
Call_y_permutator_core(c, sc, args) ==
  IF Len(args) # 4
  THEN [cube |-> c, scratch |-> sc, exit |-> FALSE, error |-> "TypeError"]
  ELSE _y_permutator_core(c, sc, args[1], args[2], args[3], args[4])

\* Lines 836 and 839 pass self as the first positional argument of the bound call.
_y_permutator_clockwise(c, sc, side_id_1_P, side_id_2_P) ==
  Call_y_permutator_core(c, sc, <<"self", side_id_1_P, side_id_2_P, ROTATE_CLOCKWISE, ROTATE_COUNTER>>)

_y_permutator_counter(c, sc, side_id_1_P, side_id_2_P) ==
  Call_y_permutator_core(c, sc, <<"self", side_id_1_P, side_id_2_P, ROTATE_COUNTER, ROTATE_CLOCKWISE>>)

\* Y_Permutator: the layers, the scratch slots, whether the process called exit(),
\* and the exception nobody catches.
Y_Permutator(c, sc, side_id_1_P, side_id_2_P, side_id_orientation_P) ==
  IF side_id_1_P # CUBE_WHITE
  THEN [cube |-> c, scratch |-> sc, exit |-> FALSE, error |-> "none"]
  ELSE IF side_id_2_P = CUBE_YELLOW
  THEN [cube |-> c, scratch |-> sc, exit |-> TRUE, error |-> "none"]
  ELSE IF side_id_orientation_P = CUBE_RED
  THEN (IF side_id_2_P = CUBE_GREEN THEN _y_permutator_clockwise(c, sc, CUBE_WHITE, CUBE_GREEN)
        ELSE IF side_id_2_P = CUBE_BLUE THEN _y_permutator_counter(c, sc, CUBE_WHITE, CUBE_BLUE)
        ELSE [cube |-> c, scratch |-> sc, exit |-> TRUE, error |-> "none"])
  ELSE IF side_id_orientation_P = CUBE_GREEN
  THEN (IF side_id_2_P = CUBE_ORANGE THEN _y_permutator_clockwise(c, sc, CUBE_WHITE, CUBE_ORANGE)
        ELSE IF side_id_2_P = CUBE_RED THEN _y_permutator_counter(c, sc, CUBE_WHITE, CUBE_RED)
        ELSE [cube |-> c, scratch |-> sc, exit |-> TRUE, error |-> "none"])
  ELSE IF side_id_orientation_P = CUBE_ORANGE
  THEN (IF side_id_2_P = CUBE_BLUE THEN _y_permutator_clockwise(c, sc, CUBE_WHITE, CUBE_BLUE)
        ELSE IF side_id_2_P = CUBE_GREEN THEN _y_permutator_counter(c, sc, CUBE_WHITE, CUBE_GREEN)
        ELSE [cube |-> c, scratch |-> sc, exit |-> TRUE, error |-> "none"])
  ELSE IF side_id_orientation_P = CUBE_BLUE
  THEN (IF side_id_2_P = CUBE_RED THEN _y_permutator_clockwise(c, sc, CUBE_WHITE, CUBE_RED)
        ELSE IF side_id_2_P = CUBE_ORANGE THEN _y_permutator_counter(c, sc, CUBE_WHITE, CUBE_ORANGE)
        ELSE [cube |-> c, scratch |-> sc, exit |-> TRUE, error |-> "none"])
  ELSE [cube |-> c, scratch |-> sc, exit |-> FALSE, error |-> "none"]

\* A caller requests the macro once, with any three of the six sides, after its
\* RotateSide calls; last records the three arguments.
CallYPermutator ==
  /\ pc = "caller"
  /\ status = "running"
  /\ Len(last) < MaxCalls
  /\ \E side_id_1 \in Faces, side_id_2 \in Faces, side_id_orientation \in Faces :
       \E r \in {Y_Permutator(cube, scratch, side_id_1, side_id_2, side_id_orientation)} :
           /\ cube' = r.cube
           /\ cube_solved' = Snapshot(cube_solved, r.cube)
           /\ scratch' = r.scratch
           /\ status' = StatusAfter(r.error, r.exit)
           /\ last' = Append(last, <<side_id_1, side_id_2, side_id_orientation>>)
           /\ prev' = cube
  /\ pc' = "permutator"
  /\ UNCHANGED <<line, runs, j, rotation_list, rotate_list_cursor, marks, calls, lock>>

NextPermutator ==
  \/ CallRotateSide
  \/ CallYPermutator

SpecPermutator == Init /\ [][NextPermutator]_vars

\* ------------------------------------------------ RotateSide step by step
\* _side_deepcopy leaving self._0900 as it was.
SlotsAfterDeepcopy_0900Kept(sc, side_P) ==
  [_side_deepcopy(side_P) EXCEPT ![_SIDE_INDEX_0900] = sc[_SIDE_INDEX_0900]]

\* The scratch slots after self._side_deepcopy( side_P ) when they held sc before:
\* each of the eight is assigned a copy of a cell of the ring.
SlotsAfterDeepcopy(sc, side_P) == _side_deepcopy(side_P)

\* The passes working on the cells of the layers themselves: what they assign to
\* the ring is in the layers at once.
LayersAfterPass_InPlace(layers, side_id_P, side_P) == _side_put(layers, side_id_P, side_P)

\* The layers after a pass of RotateSide that left the ring side_P: _side_get
\* filled the ring with deep copies, and the passes assign to the ring and to the
\* scratch slots only.
LayersAfterPass(layers, side_id_P, side_P) == layers

\* Callers that take the lock start a call only when nobody holds it.
MayStart_NoLock(t) == TRUE

MayStart(t) == lock.whole_call => lock.holder = 0

\* Step 1, side = self._side_get( side_id_P ): the caller chooses its arguments and
\* reads the ring; prev keeps the layers at the start of the call.
StepRead(t) ==
  /\ status = "running"
  /\ calls[t].at = "idle"
  /\ MayStart(t)
  /\ \E side_id \in Faces, direction \in Directions :
       calls' = [calls EXCEPT ![t] = [at |-> "read", side_id |-> side_id, direction |-> direction,
                                      side |-> _side_get(cube, side_id), made |-> @.made]]
  /\ lock' = IF lock.whole_call THEN [lock EXCEPT !.holder = t] ELSE lock
  /\ prev' = cube
  /\ UNCHANGED <<cube, cube_solved, scratch, status, pc, last, line, runs, j, rotation_list, rotate_list_cursor, marks>>

\* Step 2, self._rotate_faces( direction_P, side_id_P, side ).
StepRemap(t) ==
  /\ status = "running"
  /\ calls[t].at = "read"
  /\ \E c \in {calls[t]} :
       \E r \in {RemapRing(c.direction, c.side_id, c.side, SlotsAfterDeepcopy(scratch, c.side))} :
         /\ calls' = [calls EXCEPT ![t].at = "remapped", ![t].side = r.side]
         /\ scratch' = r.scratch
         /\ status' = IF r.exit THEN "exit" ELSE "running"
         /\ cube' = LayersAfterPass(cube, c.side_id, r.side)
  /\ UNCHANGED <<cube_solved, pc, last, prev, line, runs, j, rotation_list, rotate_list_cursor, marks, lock>>

\* Step 3, self._rotate_colors( direction_P, side_id_P, side ).
StepPermute(t) ==
  /\ status = "running"
  /\ calls[t].at = "remapped"
  /\ \E c \in {calls[t]} :
       \E r \in {PermuteRing(c.direction, c.side_id, c.side, SlotsAfterDeepcopy(scratch, c.side))} :
         /\ calls' = [calls EXCEPT ![t].at = "permuted", ![t].side = r.side]
         /\ scratch' = r.scratch
         /\ cube' = LayersAfterPass(cube, c.side_id, r.side)
  /\ UNCHANGED <<cube_solved, status, pc, last, prev, line, runs, j, rotation_list, rotate_list_cursor, marks, lock>>

\* Step 4, self._side_put( side_id_P, side ): the call returns, and a caller that
\* took the lock gives it back.
StepWriteBack(t) ==
  /\ status = "running"
  /\ calls[t].at = "permuted"
  /\ \E c \in {calls[t]} :
       \E layers \in {_side_put(cube, c.side_id, c.side)} :
         /\ cube' = layers
         /\ cube_solved' = Snapshot(cube_solved, layers)
         /\ last' = Append(last, <<c.side_id, c.direction>>)
  /\ calls' = [calls EXCEPT ![t].at = "idle", ![t].side = <<>>, ![t].made = @ + 1]
  /\ lock' = IF lock.whole_call THEN [lock EXCEPT !.holder = 0] ELSE lock
  /\ UNCHANGED <<scratch, status, pc, prev, line, runs, j, rotation_list, rotate_list_cursor, marks>>

\* One caller, the program as it is: up to MaxCalls calls, each in four steps.
InitSteps ==
  /\ cube = InitCube
  /\ cube_solved = InitCube
  /\ scratch = [pos \in 0 .. 7 |-> CUBE_NIL]
  /\ status = "running"
  /\ pc = "steps"
  /\ last = <<>>
  /\ prev = InitCube
  /\ line = 0
  /\ runs = 0
  /\ j = 0
  /\ rotation_list = <<>>
  /\ rotate_list_cursor = 0
  /\ marks = <<>>
  /\ calls = NoCalls
  /\ lock = NoLock

\* The caller starts another call.
StartCall(t) == calls[t].made < MaxCalls /\ StepRead(t)

NextSteps ==
  \/ StartCall(1)
  \/ StepRemap(1)
  \/ StepPermute(1)
  \/ StepWriteBack(1)

SpecSteps == InitSteps /\ [][NextSteps]_vars

\* The layers two callers start from: the constructed cube, or the cube after one
\* clockwise turn.
SharedStarts == {InitCube} \cup {Rotated(InitCube, side_id, ROTATE_CLOCKWISE) : side_id \in Faces}

\* Two callers share the object and make one call each, step by step; either both
\* take the lock for their whole call, or neither takes it. marks keeps the layers
\* they start from.
InitShared ==
  /\ cube \in SharedStarts
  /\ cube_solved = InitCube
  /\ scratch = [pos \in 0 .. 7 |-> CUBE_NIL]
  /\ status = "running"
  /\ pc = "shared"
  /\ last = <<>>
  /\ prev = cube
  /\ line = 0
  /\ runs = 0
  /\ j = 0
  /\ rotation_list = <<>>
  /\ rotate_list_cursor = 0
  /\ marks = <<cube>>
  /\ calls = NoCalls
  /\ lock \in {[whole_call |-> b, holder |-> 0] : b \in BOOLEAN}

\* The caller starts its one call.
StartOnlyCall(t) == calls[t].made = 0 /\ StepRead(t)

NextShared ==
  \E t \in Callers :
    \/ StartOnlyCall(t)
    \/ StepRemap(t)
    \/ StepPermute(t)
    \/ StepWriteBack(t)

SpecShared == InitShared /\ [][NextShared]_vars

\* ------------------------------------------------ the colour remap called on its own
InitRemap ==
  /\ cube = InitCube
  /\ cube_solved = InitCube
  /\ scratch = [pos \in 0 .. 7 |-> CUBE_NIL]
  /\ status = "running"
  /\ pc = "remap"
  /\ last = <<>>
  /\ prev = InitCube
  /\ line = 0
  /\ runs = 0
  /\ j = 0
  /\ rotation_list = <<>>
  /\ rotate_list_cursor = 0
  /\ marks = <<>>
  /\ calls = NoCalls
  /\ lock = NoLock

\* One call _side_edge_face_get( direction_P, side_id_P, face_color_P ) with any of
\* the six colours: last records the arguments and what the call returned, and an
\* exit() branch ends the process.
CallRemap ==
  /\ pc = "remap"
  /\ status = "running"
  /\ Len(last) < MaxRemaps
  /\ \E side_id \in Faces, direction \in Directions, face_color \in Faces :
       \E r \in {_side_edge_face_get(direction, side_id, face_color)} :
           /\ last' = Append(last, <<side_id, direction, face_color, r>>)
           /\ status' = IF r = EXIT THEN "exit" ELSE "running"
  /\ UNCHANGED <<cube, cube_solved, scratch, pc, prev, line, runs, j, rotation_list, rotate_list_cursor, marks, calls, lock>>

NextRemap == CallRemap

SpecRemap == InitRemap /\ [][NextRemap]_vars

\* ------------------------------------------------ the main program
InitProgram ==
  /\ cube = InitCube
  /\ cube_solved = InitCube
  /\ scratch = [pos \in 0 .. 7 |-> CUBE_NIL]
  /\ status = "running"
  /\ pc = "script"
  /\ last = <<>>
  /\ prev = InitCube
  /\ line = 0
  /\ runs = 0
  /\ j = 0
  /\ rotation_list = <<>>
  /\ rotate_list_cursor = 0
  /\ marks = <<>>
  /\ calls = NoCalls
  /\ lock = NoLock

\* One scripted TestRotate call: five per side, the fifth with TEST_ROTATE_BACK.
ScriptedTestRotate ==
  /\ pc = "script"
  /\ status = "running"
  /\ line < ScriptLength
  /\ \E r \in {TestRotate(cube, scratch, cube_solved, ScriptFlags[(line % 5) + 1],
                           ScriptSides[(line \div 5) + 1], ROTATE_CLOCKWISE,
                           ScriptIterations[(line % 5) + 1])} :
         /\ cube' = r.cube
         /\ cube_solved' = Snapshot(cube_solved, r.cube)
         /\ scratch' = r.scratch
         /\ status' = IF r.exit THEN "exit" ELSE "running"
  /\ line' = line + 1
  /\ UNCHANGED <<pc, last, prev, runs, j, rotation_list, rotate_list_cursor, marks, calls, lock>>

\* The script is over: the loop of TestRotateRandom calls starts.
StartMultiSide ==
  /\ pc = "script"
  /\ status = "running"
  /\ line = ScriptLength
  /\ pc' = "random"
  /\ UNCHANGED <<cube, cube_solved, scratch, status, last, prev, line, runs, j, rotation_list, rotate_list_cursor, marks, calls, lock>>

\* TestRotateRandom is entered: rotation_list = [ -1 ] and j is drawn.
EnterTestRotateRandom ==
  /\ pc = "random"
  /\ status = "running"
  /\ runs < MaxRuns
  /\ runs' = runs + 1
  /\ rotation_list' = <<-1>>
  /\ marks' = <<>>
  /\ \E n \in 1 .. MaxWind : j' = n
  /\ pc' = "wind"
  /\ UNCHANGED <<cube, cube_solved, scratch, status, last, prev, line, rotate_list_cursor, calls, lock>>

\* One pass of the wind loop: a move is drawn, recorded and made.
Wind ==
  /\ pc = "wind"
  /\ status = "running"
  /\ Len(marks) < j
  /\ \E side_id \in Faces, direction \in Directions, count \in Counts :
       \E r \in {TestRotate(cube, scratch, cube_solved, TEST_ROTATE, side_id, direction, count)} :
           /\ rotation_list' = Recorded(rotation_list, side_id, direction, count)
           /\ cube' = r.cube
           /\ cube_solved' = Snapshot(cube_solved, r.cube)
           /\ scratch' = r.scratch
           /\ status' = IF r.exit THEN "exit" ELSE "running"
  /\ marks' = Append(marks, cube)
  /\ UNCHANGED <<pc, last, prev, line, runs, j, rotate_list_cursor, calls, lock>>

\* The wind loop is over: the cursor is set to the last element of the list.
StartUnwind ==
  /\ pc = "wind"
  /\ status = "running"
  /\ Len(marks) = j
  /\ rotate_list_cursor' = Len(rotation_list) - 1
  /\ pc' = "unwind"
  /\ UNCHANGED <<cube, cube_solved, scratch, status, last, prev, line, runs, j, rotation_list, marks, calls, lock>>

\* One pass of the unwind loop: the newest move not yet undone is read and reversed.
Unwind ==
  /\ pc = "unwind"
  /\ status = "running"
  /\ rotate_list_cursor > 0
  /\ \E m \in {UnwindMove(rotation_list, rotate_list_cursor)} :
       \E r \in {TestRotate(cube, scratch, cube_solved, TEST_ROTATE, m.side_id, m.direction, m.count)} :
         /\ rotate_list_cursor' = m.cursor
         /\ cube' = r.cube
         /\ cube_solved' = Snapshot(cube_solved, r.cube)
         /\ scratch' = r.scratch
         /\ status' = IF r.exit THEN "exit" ELSE "running"
  /\ UNCHANGED <<pc, last, prev, line, runs, j, rotation_list, marks, calls, lock>>

\* TestRotateRandom returns j.
ReturnTestRotateRandom ==
  /\ pc = "unwind"
  /\ status = "running"
  /\ rotate_list_cursor = 0
  /\ pc' = "random"
  /\ UNCHANGED <<cube, cube_solved, scratch, status, last, prev, line, runs, j, rotation_list, rotate_list_cursor, marks, calls, lock>>

\* The final check of the main program (lines 980 .. 984).
FinalCheck ==
  /\ pc = "random"
  /\ status = "running"
  /\ runs = MaxRuns
  /\ pc' = "done"
  /\ status' = IF PrintSide(cube, PRINT_SIDE_LABEL, CUBE_WHITE) \/ PrintSide(cube, PRINT_SIDE_LABEL, CUBE_YELLOW)
                  \/ PrintSide(cube, PRINT_SIDE_LABEL, CUBE_RED) \/ PrintSide(cube, PRINT_SIDE_LABEL, CUBE_GREEN)
                  \/ PrintSide(cube, PRINT_SIDE_LABEL, CUBE_ORANGE) \/ PrintSide(cube, PRINT_SIDE_LABEL, CUBE_BLUE)
               THEN "exit"
               ELSE IF cube = cube_solved THEN "CUBE SOLVED" ELSE "CUBE UNSOLVED"
  /\ UNCHANGED <<cube, cube_solved, scratch, last, prev, line, runs, j, rotation_list, rotate_list_cursor, marks, calls, lock>>

NextProgram ==
  \/ ScriptedTestRotate
  \/ StartMultiSide
  \/ EnterTestRotateRandom
  \/ Wind
  \/ StartUnwind
  \/ Unwind
  \/ ReturnTestRotateRandom
  \/ FinalCheck

SpecProgram == InitProgram /\ [][NextProgram]_vars

\* ------------------------------------------------ helpers of the properties
Flip(direction) == IF direction = ROTATE_CLOCKWISE THEN ROTATE_COUNTER ELSE ROTATE_CLOCKWISE

\* The call completes (no exit() branch) and leaves the layers c.
Completes(result, c) == \A r \in {result} : (~r.exit) /\ r.cube = c

\* IsSolved: self._cube == self._cube_solved.
IsSolved == cube = cube_solved

\* A caller has made at least one call, and the process is alive.
Called == pc = "caller" /\ status = "running" /\ Len(last) >= 1

LastSide == last[Len(last)][1]
LastDirection == last[Len(last)][2]

\* C1: whatever reachable state a caller turns a face from, and whichever face and
\* direction, turning the same face back at once completes and leaves the three
\* layers exactly as they were before the first of the two calls.
C1_InverseIsNoOp ==
  Called => Completes(RotateSide(cube, LastSide, Flip(LastDirection)), prev)

\* A caller, from a cube that is not solved, turned Red clockwise and then counter-
\* clockwise: the layers changed and are back.
C1_Witness ==
  /\ pc = "caller" /\ status = "running" /\ Len(last) = 3
  /\ last[2] = <<CUBE_RED, ROTATE_CLOCKWISE>>
  /\ last[3] = <<CUBE_RED, ROTATE_COUNTER>>
  /\ cube # prev
  /\ cube # cube_solved
  /\ cube = Rotated(cube_solved, last[1][1], last[1][2])

\* C2: a call followed by three more turns of the same face in the same direction
\* returns the three layers to the state before the call, from every reachable
\* state; and from the solved cube twelve clockwise turns of any one face (the
\* 1 + 2 + 3 + 4 + 2 turns of the scripted test) give the solved cube.
C2_OrderFour ==
  /\ Called => Completes(Turns(cube, scratch, LastSide, LastDirection, 3), prev)
  /\ (pc = "caller" /\ Len(last) = 0) =>
       \A f \in Faces : Completes(Turns(cube, scratch, f, ROTATE_CLOCKWISE, 12), cube_solved)

\* From a cube that is not solved a caller turned Green counter-clockwise: one, two
\* and three turns each give other layers, the fourth gives the first ones.
C2_Witness ==
  /\ Called /\ Len(last) = 3
  /\ last[3] = <<CUBE_GREEN, ROTATE_COUNTER>>
  /\ prev # cube_solved
  /\ cube # prev
  /\ Turns(cube, scratch, CUBE_GREEN, ROTATE_COUNTER, 1).cube # prev
  /\ Turns(cube, scratch, CUBE_GREEN, ROTATE_COUNTER, 2).cube # prev
  /\ Turns(cube, scratch, CUBE_GREEN, ROTATE_COUNTER, 3).cube = prev

\* The scenario of the scramble / unscramble test: (side_id, direction, count).
Scenario ==
  <<<<CUBE_RED, ROTATE_CLOCKWISE, 1>>, <<CUBE_GREEN, ROTATE_COUNTER, 2>>,
    <<CUBE_BLUE, ROTATE_CLOCKWISE, 3>>>>

\* The wind loop of TestRotateRandom making the given moves: the object and the list.
RECURSIVE WindAll(_, _, _)
WindAll(object, list, moves) ==
  Only({IF moves = <<>> \/ obj.exit THEN [obj |-> obj, list |-> list]
        ELSE WindAll(TestRotate(obj.cube, obj.scratch, cube_solved, TEST_ROTATE,
                                moves[1][1], moves[1][2], moves[1][3]),
                     Recorded(list, moves[1][1], moves[1][2], moves[1][3]), Tail(moves))
        : obj \in {object}})

\* The unwind loop of TestRotateRandom from cursor position cur.
RECURSIVE UnwindAll(_, _, _)
UnwindAll(object, list, cur) ==
  Only({IF cur <= 0 \/ obj.exit THEN obj
        ELSE Only({UnwindAll(TestRotate(obj.cube, obj.scratch, cube_solved, TEST_ROTATE,
                                        m.side_id, m.direction, m.count), list, m.cursor)
                   : m \in {UnwindMove(list, cur)}})
        : obj \in {object}})

ScenarioRestores ==
  \A w \in {WindAll([cube |-> cube, scratch |-> scratch, exit |-> FALSE], <<-1>>, Scenario)} :
    /\ ~w.obj.exit
    /\ w.obj.cube # cube
    /\ Completes(UnwindAll(w.obj, w.list, Len(w.list) - 1), cube)

\* The number of recorded moves the unwind loop has not undone yet.
NotUndone == rotate_list_cursor \div 3

\* C3: TestRotateRandom winds any sequence of moves (side, direction, 0 .. 4 turns)
\* and unwinds it newest first with each direction flipped: no move ends the
\* process, and once the moves after the k-th are undone the layers are exactly the
\* ones before they were made (for k = 0: the ones before the whole sequence). In
\* particular, from the solved cube, [(Red, CW, 1), (Green, CCW, 2), (Blue, CW, 3)]
\* wound and unwound gives the solved cube.
C3_UnwindRestores ==
  /\ pc \in {"wind", "unwind"} => status = "running"
  /\ (pc = "unwind" /\ status = "running" /\ NotUndone < j) => cube = marks[NotUndone + 1]
  /\ (pc = "script" /\ line = 0) => ScenarioRestores

\* The driver wound (Red, CW, 1), (Green, CCW, 2) and has unwound both: the layers
\* were different after each move and are the first ones again.
C3_Witness ==
  /\ pc = "unwind" /\ status = "running" /\ rotate_list_cursor = 0
  /\ rotation_list = <<-1, 1, ROTATE_CLOCKWISE, CUBE_RED, 2, ROTATE_COUNTER, CUBE_GREEN>>
  /\ marks[2] # marks[1]
  /\ cube = marks[1]

\* The indices of the colour fields of a cell: two for an Edge, three for a Corner,
\* one for a Center.
StickerFields(cell) ==
  IF cell[CUBE_TYPE] = CUBE_EDGE THEN {CUBE_EDGE_0, CUBE_EDGE_1}
  ELSE IF cell[CUBE_TYPE] = CUBE_CORNER THEN {CUBE_CORNER_0, CUBE_CORNER_1, CUBE_CORNER_2}
  ELSE IF cell[CUBE_TYPE] = CUBE_ID THEN {CUBE_ID_0}
  ELSE {}

\* The indices of the binding (side-identity) fields of a cell.
BindingFields(cell) ==
  IF cell[CUBE_TYPE] = CUBE_EDGE THEN {CUBE_EDGE_FACE_0, CUBE_EDGE_FACE_1}
  ELSE IF cell[CUBE_TYPE] = CUBE_CORNER
  THEN {CUBE_CORNER_FACE_0, CUBE_CORNER_FACE_1, CUBE_CORNER_FACE_2}
  ELSE IF cell[CUBE_TYPE] = CUBE_ID THEN {CUBE_ID_FACE_0}
  ELSE {}

Layers == {CUBE_TOP, CUBE_MIDDLE, CUBE_BOTTOM}
LayerIndices == 0 .. 7

\* The number of stickers of colour col stored in the cells of layers c.
StickerCount(c, col) ==
  Cardinality({t \in Layers \X LayerIndices \X (1 .. 6) :
                 t[3] \in StickerFields(c[t[1]][t[2]]) /\ c[t[1]][t[2]][t[3]] = col})

\* C4 as stated: nine stickers of each of the six colours.
C4_NineOfEach == \A col \in Faces : StickerCount(cube, col) = 9

\* C4, amended: in every reachable state the cells of the three layers
\* hold 8 White and 8 Yellow stickers and 9 Red, Green, Orange and Blue ones (the
\* White and the Yellow Center are not stored: 24 cells, 52 stickers).
C4_StickerCounts ==
  /\ \A col \in {CUBE_WHITE, CUBE_YELLOW} : StickerCount(cube, col) = 8
  /\ \A col \in {CUBE_RED, CUBE_GREEN, CUBE_ORANGE, CUBE_BLUE} : StickerCount(cube, col) = 9

\* After three calls the Top layer holds a piece without a White sticker and the
\* Bottom layer one with a White sticker, and the counts are 8, 8, 9, 9, 9, 9.
C4_Witness ==
  /\ Called /\ Len(last) = 3
  /\ \E i \in LayerIndices :
       \A k \in StickerFields(cube[CUBE_TOP][i]) : cube[CUBE_TOP][i][k] # CUBE_WHITE
  /\ \E i \in LayerIndices :
       \E k \in StickerFields(cube[CUBE_BOTTOM][i]) : cube[CUBE_BOTTOM][i][k] = CUBE_WHITE
  /\ C4_StickerCounts

\* The ring with its cells in reverse order.
Reversed(side) == [pos \in 0 .. 7 |-> side[7 - pos]]

\* C5: in every reachable state and for every face, writing back the ring just read
\* leaves the three layers unchanged, and a ring written is the ring read back (the
\* write map is the inverse of the read map).
C5_PutGetRoundTrip ==
  \A f \in Faces :
    \A side \in {_side_get(cube, f)} :
      /\ _side_put(cube, f, side) = cube
      /\ _side_get(_side_put(cube, f, Reversed(side)), f) = Reversed(side)

\* After three calls the rings of White, Yellow and Red all differ from the solved
\* cube's, and writing each back changes nothing.
C5_Witness ==
  /\ Called /\ Len(last) = 3
  /\ \A f \in {CUBE_WHITE, CUBE_YELLOW, CUBE_RED} :
       /\ _side_get(cube, f) # _side_get(cube_solved, f)
       /\ _side_put(cube, f, _side_get(cube, f)) = cube

\* C6: a caller turned White in some direction; turning Yellow afterwards gives the
\* layers that turning Yellow first and White second gives from the same state, for
\* both directions of Yellow.
C6_WhiteYellowCommute ==
  (Called /\ LastSide = CUBE_WHITE) =>
    \A d2 \in Directions :
      \A y \in {RotateSide(prev, CUBE_YELLOW, d2)} :
        /\ ~y.exit
        /\ Completes(RotateSide(cube, CUBE_YELLOW, d2), Rotated(y.cube, CUBE_WHITE, LastDirection))

\* From a cube that is not solved a caller turned White clockwise; Yellow counter-
\* clockwise changes the layers further, and the other order gives the same layers.
C6_Witness ==
  /\ Called /\ Len(last) = 3
  /\ last[3] = <<CUBE_WHITE, ROTATE_CLOCKWISE>>
  /\ prev # cube_solved
  /\ cube # prev
  /\ Rotated(cube, CUBE_YELLOW, ROTATE_COUNTER) # cube
  /\ Rotated(cube, CUBE_YELLOW, ROTATE_COUNTER)
       = Rotated(Rotated(prev, CUBE_YELLOW, ROTATE_COUNTER), CUBE_WHITE, ROTATE_CLOCKWISE)

\* C7: after a single turn of any face in either direction from the solved cube,
\* IsSolved is false.
C7_SingleTurnNotSolved ==
  (Called /\ Len(last) = 1) => (prev = cube_solved /\ ~IsSolved)

\* RotateSide(Red, Clockwise) was called once on the solved cube.
C7_Witness ==
  /\ Called /\ last = <<<<CUBE_RED, ROTATE_CLOCKWISE>>>>
  /\ prev = cube_solved
  /\ ~IsSolved

\* A piece: the kind of a cell and its colour fields in order.
Piece(cell) ==
  <<cell[CUBE_TYPE],
    IF cell[CUBE_TYPE] = CUBE_EDGE THEN <<cell[CUBE_EDGE_0], cell[CUBE_EDGE_1]>>
    ELSE IF cell[CUBE_TYPE] = CUBE_CORNER
    THEN <<cell[CUBE_CORNER_0], cell[CUBE_CORNER_1], cell[CUBE_CORNER_2]>>
    ELSE <<cell[CUBE_ID_0]>>>>

Pieces(c) == {Piece(c[t[1]][t[2]]) : t \in Layers \X LayerIndices}

\* C8: in every reachable state the 24 cells hold the 24 pieces of the solved cube,
\* each with the colour fields it had at construction (the solved cube's pieces are
\* pairwise different, so every piece is held by exactly one cell).
C8_PiecesKeepColours ==
  /\ Pieces(cube) = Pieces(cube_solved)
  /\ Cardinality(Pieces(cube)) = 24

\* After three calls a Corner of the Bottom layer has all three stickers bound to
\* other sides than at construction (where binding = colour), a Top slot holds
\* another piece than at construction, and the pieces are the solved cube's.
C8_Witness ==
  /\ Called /\ Len(last) = 3
  /\ \E i \in LayerIndices :
       /\ cube[CUBE_BOTTOM][i][CUBE_TYPE] = CUBE_CORNER
       /\ cube[CUBE_BOTTOM][i][CUBE_CORNER_FACE_0] # cube[CUBE_BOTTOM][i][CUBE_CORNER_0]
       /\ cube[CUBE_BOTTOM][i][CUBE_CORNER_FACE_1] # cube[CUBE_BOTTOM][i][CUBE_CORNER_1]
       /\ cube[CUBE_BOTTOM][i][CUBE_CORNER_FACE_2] # cube[CUBE_BOTTOM][i][CUBE_CORNER_2]
  /\ \E i \in LayerIndices : Piece(cube[CUBE_TOP][i]) # Piece(cube_solved[CUBE_TOP][i])
  /\ Pieces(cube) = Pieces(cube_solved)

\* C9: in every reachable state the two bindings of every Edge are different and the
\* three bindings of every Corner are pairwise different.
C9_BindingsDistinct ==
  \A t \in Layers \X LayerIndices :
    \A cell \in {cube[t[1]][t[2]]} :
      /\ cell[CUBE_TYPE] = CUBE_EDGE => cell[CUBE_EDGE_FACE_0] # cell[CUBE_EDGE_FACE_1]
      /\ cell[CUBE_TYPE] = CUBE_CORNER =>
           /\ cell[CUBE_CORNER_FACE_0] # cell[CUBE_CORNER_FACE_1]
           /\ cell[CUBE_CORNER_FACE_0] # cell[CUBE_CORNER_FACE_2]
           /\ cell[CUBE_CORNER_FACE_1] # cell[CUBE_CORNER_FACE_2]

\* The last of three calls rebound two bindings of a Corner of the turned ring, and
\* that Corner's three bindings are pairwise different.
C9_Witness ==
  /\ Called /\ Len(last) = 3
  /\ \E pos \in {_SIDE_INDEX_0130, _SIDE_INDEX_0430, _SIDE_INDEX_0730, _SIDE_INDEX_1030} :
       \E old \in {_side_get(prev, LastSide)[pos]} :
         \E new \in {_side_get(cube, LastSide)[(pos + (IF LastDirection = ROTATE_CLOCKWISE THEN 2 ELSE 6)) % 8]} :
           /\ Piece(new) = Piece(old)
           /\ Cardinality({k \in BindingFields(old) : new[k] # old[k]}) = 2
           /\ Cardinality({new[k] : k \in BindingFields(new)}) = 3

\* C10: no ring position of any face holds a Center, and the four Centers of the
\* Middle layer (indices 0, 2, 4, 6) are the ones stored at construction, in every
\* reachable state.
C10_CentersFixed ==
  /\ \A f \in Faces : \A side \in {_side_get(cube, f)} :
       \A pos \in 0 .. 7 : side[pos][CUBE_TYPE] # CUBE_ID
  /\ \A i \in {0, 2, 4, 6} :
       /\ cube[CUBE_MIDDLE][i] = InitMid[i]
       /\ cube[CUBE_MIDDLE][i][CUBE_TYPE] = CUBE_ID

\* After three calls all four Edges of the Middle layer are other cells than at
\* construction, and the four Centers are unchanged.
C10_Witness ==
  /\ Called /\ Len(last) = 3
  /\ \A i \in {1, 3, 5, 7} : cube[CUBE_MIDDLE][i] # InitMid[i]
  /\ \A i \in {0, 2, 4, 6} : cube[CUBE_MIDDLE][i] = InitMid[i]

\* C11: the snapshot _cube_solved is the layers built by __init__ in every reachable
\* state (no RotateSide call modifies it), the constructed cube is solved, and
\* IsSolved holds exactly when the current layers are the constructed ones.
C11_SnapshotConstant ==
  /\ cube_solved = InitCube
  /\ Len(last) = 0 => IsSolved
  /\ IsSolved <=> cube = InitCube

\* Two calls brought the cube back to the solved layers and a third one left them
\* again: the snapshot is still the constructed cube and IsSolved is false.
C11_Witness ==
  /\ Called /\ Len(last) = 3
  /\ prev = cube_solved
  /\ last[2] = <<last[1][1], Flip(last[1][2])>>
  /\ ~IsSolved
  /\ cube_solved = InitCube

\* C12: in every reachable state, for every face f and each of the 8 ring positions,
\* the cell at that position has a binding equal to f, the colour lookup of PrintSide
\* (_side_edge_color_get at the hours, _side_corner_color_get at the half hours)
\* yields one of the 6 colours, and PrintSide does not end in exit().
C12_LookupsSucceed ==
  \A f \in Faces :
    /\ \A side \in {_side_get(cube, f)} :
         \A pos \in 0 .. 7 :
           /\ \E k \in BindingFields(side[pos]) : side[pos][k] = f
           /\ RingColor(f, side, pos) \in Faces
    /\ ~PrintSide(cube, PRINT_SIDE_LABEL, f)

\* After three calls some face shows four or more colours on its ring, and every
\* lookup on every face yields a colour.
C12_Witness ==
  /\ Called /\ Len(last) = 3
  /\ \E f \in Faces : Cardinality({VisibleColor(cube, f, pos) : pos \in 0 .. 7}) >= 4
  /\ \A f \in Faces : \A pos \in 0 .. 7 : VisibleColor(cube, f, pos) \in Faces

\* The positions of the four Edges and of the four Corners of a ring.
Hours == {_SIDE_INDEX_0000, _SIDE_INDEX_0300, _SIDE_INDEX_0600, _SIDE_INDEX_0900}
HalfHours == {_SIDE_INDEX_0130, _SIDE_INDEX_0430, _SIDE_INDEX_0730, _SIDE_INDEX_1030}

\* The colours _side_edge_face_get accepts for the axis side_id: the four sides
\* adjacent to it.
Lateral(side_id) ==
  {c \in Faces : _side_edge_face_get(ROTATE_CLOCKWISE, side_id, c) # EXIT}

\* C13: no RotateSide call of a caller (6 faces, both directions, from every
\* reachable state) ends in exit(); and in every reachable state, for every face f,
\* each of the four Edges of f's ring is bound to f and to one of the four sides
\* adjacent to f, so that every sticker handed to the remap is in its domain and a
\* further call in either direction completes.
C13_RotateSideTotal ==
  /\ pc = "caller" => status = "running"
  /\ \A f \in Faces : \A side \in {_side_get(cube, f)} :
       /\ \A pos \in Hours : \E k \in {CUBE_EDGE_FACE_0, CUBE_EDGE_FACE_1} :
            /\ side[pos][CUBE_TYPE] = CUBE_EDGE
            /\ side[pos][k] = f
            /\ side[pos][CUBE_EDGE_FACE_0 + CUBE_EDGE_FACE_1 - k] \in Lateral(f)
       /\ \A d \in Directions : ~_rotate_faces(d, f, side).exit

\* The third call of a caller turned Orange counter-clockwise on a cube that was not
\* solved, changing the layers, and completed.
C13_Witness ==
  /\ Called /\ Len(last) = 3
  /\ last[3] = <<CUBE_ORANGE, ROTATE_COUNTER>>
  /\ prev # cube_solved
  /\ cube # prev
  /\ \A pos \in Hours : \E k \in {CUBE_EDGE_FACE_0, CUBE_EDGE_FACE_1} :
       _side_get(prev, CUBE_ORANGE)[pos][k] \in Lateral(CUBE_ORANGE)

\* C14 as stated: a _side_get or RotateSide request with a face that is none of the
\* six ends the process and leaves the three layers unchanged.
C14_BadFaceIsFatal ==
  (pc = "misused" /\ LastSide \notin Faces) => (status \in Fatal /\ cube = prev)

\* RotateSide( -1, ROTATE_CLOCKWISE ) on a cube that two valid calls scrambled: the
\* call returned, and the layers changed.
C14_Witness ==
  /\ pc = "misused" /\ Len(last) = 3
  /\ last[3] = <<-1, ROTATE_CLOCKWISE>>
  /\ status = "running"
  /\ cube # prev

\* C15 as stated: a RotateSide request with a direction that is none of the two ends
\* the process and leaves the three layers unchanged.
C15_BadDirectionIsFatal ==
  (pc = "misused" /\ Len(last[Len(last)]) = 2 /\ LastDirection \notin Directions)
    => (status \in Fatal /\ cube = prev)

\* RotateSide( CUBE_RED, 2 ) on a cube that two valid calls scrambled: the call
\* returned and left the layers RotateSide( CUBE_RED, ROTATE_COUNTER ) gives.
C15_Witness ==
  /\ pc = "misused" /\ Len(last) = 3
  /\ last[3] = <<CUBE_RED, 2>>
  /\ status = "running"
  /\ cube # prev
  /\ cube = Rotated(prev, CUBE_RED, ROTATE_COUNTER)

\* The newest remap call: its axis, direction, colour and what it returned.
Remapped == pc = "remap" /\ Len(last) >= 1
RemapSide == last[Len(last)][1]
RemapDirection == last[Len(last)][2]
RemapColor == last[Len(last)][3]
RemapReturned == last[Len(last)][4]

\* The colour after c in the cycle (a sequence of four colours, closed), or EXIT for
\* a colour that is not in it.
NextInCycle(cycle, c) ==
  IF \E i \in 1 .. 4 : cycle[i] = c
  THEN cycle[((CHOOSE i \in 1 .. 4 : cycle[i] = c) % 4) + 1]
  ELSE EXIT

\* C16: a clockwise remap call about the White axis returns the colour that follows
\* in Red, Green, Orange, Blue, Red, one about the Red axis the colour that follows in
\* White, Blue, Yellow, Green, White, and each ends in exit() for the two colours
\* that are not in its cycle.
C16_ClockwiseCycles ==
  (Remapped /\ RemapDirection = ROTATE_CLOCKWISE) =>
    /\ RemapSide = CUBE_WHITE =>
         /\ RemapReturned = NextInCycle(<<CUBE_RED, CUBE_GREEN, CUBE_ORANGE, CUBE_BLUE>>, RemapColor)
         /\ RemapColor \in {CUBE_WHITE, CUBE_YELLOW} <=> status = "exit"
    /\ RemapSide = CUBE_RED =>
         /\ RemapReturned = NextInCycle(<<CUBE_WHITE, CUBE_BLUE, CUBE_YELLOW, CUBE_GREEN>>, RemapColor)
         /\ RemapColor \in {CUBE_RED, CUBE_ORANGE} <=> status = "exit"

\* The White remap took Blue to Red clockwise, then the Red remap took Yellow to
\* Green clockwise.
C16_Witness ==
  /\ pc = "remap" /\ status = "running"
  /\ last = <<<<CUBE_WHITE, ROTATE_CLOCKWISE, CUBE_BLUE, CUBE_RED>>,
              <<CUBE_RED, ROTATE_CLOCKWISE, CUBE_YELLOW, CUBE_GREEN>>>>

\* The side opposite to a side.
Opposite(side_id) ==
  IF side_id = CUBE_WHITE THEN CUBE_YELLOW
  ELSE IF side_id = CUBE_YELLOW THEN CUBE_WHITE
  ELSE IF side_id = CUBE_RED THEN CUBE_ORANGE
  ELSE IF side_id = CUBE_ORANGE THEN CUBE_RED
  ELSE IF side_id = CUBE_GREEN THEN CUBE_BLUE
  ELSE CUBE_GREEN

\* C17: for each of the six axes and each direction, a remap call returns a colour
\* exactly for the four colours other than the axis and its opposite; the remap of
\* the same axis in the other direction takes the returned colour back to the
\* argument; and the call returns what the remap of the opposite axis returns in
\* the other direction.
C17_CounterIsInverse ==
  Remapped =>
    /\ RemapReturned # EXIT <=> RemapColor \notin {RemapSide, Opposite(RemapSide)}
    /\ RemapReturned # EXIT =>
         /\ RemapReturned \in Faces \ {RemapSide, Opposite(RemapSide)}
         /\ _side_edge_face_get(Flip(RemapDirection), RemapSide, RemapReturned) = RemapColor
    /\ RemapReturned = _side_edge_face_get(Flip(RemapDirection), Opposite(RemapSide), RemapColor)

\* The Blue remap took White to Orange counter-clockwise, then took Orange back to
\* White clockwise.
C17_Witness ==
  /\ pc = "remap" /\ status = "running" /\ Len(last) = 2
  /\ last[1] = <<CUBE_BLUE, ROTATE_COUNTER, last[2][4], last[2][3]>>
  /\ last[2] = <<CUBE_BLUE, ROTATE_CLOCKWISE, last[1][4], last[1][3]>>
  /\ last[1][3] = CUBE_WHITE

\* The ring position a cell at position pos has after a turn in that direction: two
\* positions on for clockwise, two back for counter-clockwise.
Moved(pos, direction) == (pos + (IF direction = ROTATE_CLOCKWISE THEN 2 ELSE 8 - 2)) % 8

\* C18: after a call RotateSide(f, d), for each of the 8 positions p of f's ring the
\* piece that was at p before the call is at p + 2 (clockwise) or p - 2 (counter-
\* clockwise) modulo 8, and the colour f shows there is the colour f showed at p.
C18_RingMovesByTwo ==
  Called =>
    \A before \in {_side_get(prev, LastSide)} : \A after \in {_side_get(cube, LastSide)} :
      \A pos \in 0 .. 7 :
        /\ Piece(after[Moved(pos, LastDirection)]) = Piece(before[pos])
        /\ RingColor(LastSide, before, pos) \in Faces
        /\ RingColor(LastSide, after, Moved(pos, LastDirection)) = RingColor(LastSide, before, pos)

\* The third call turned Green counter-clockwise when Green showed three or more
\* colours; the colour Green showed at 0300 is now at 0130 and the one at 0000 at 0900.
C18_Witness ==
  /\ Called /\ Len(last) = 3
  /\ last[3] = <<CUBE_GREEN, ROTATE_COUNTER>>
  /\ Cardinality({VisibleColor(prev, CUBE_GREEN, pos) : pos \in 0 .. 7}) >= 3
  /\ VisibleColor(cube, CUBE_GREEN, _SIDE_INDEX_0130) = VisibleColor(prev, CUBE_GREEN, _SIDE_INDEX_0300)
  /\ VisibleColor(cube, CUBE_GREEN, _SIDE_INDEX_0900) = VisibleColor(prev, CUBE_GREEN, _SIDE_INDEX_0000)
  /\ VisibleColor(cube, CUBE_GREEN, _SIDE_INDEX_0130) # VisibleColor(prev, CUBE_GREEN, _SIDE_INDEX_0130)

\* The binding field of an Edge that is not field k.
OtherEdgeFace(k) == CUBE_EDGE_FACE_0 + CUBE_EDGE_FACE_1 - k

\* C19: in every reachable state each of the four on-the-hour cells of every face f's
\* ring is an Edge with exactly one sticker bound to f; and after a call
\* RotateSide(f, d) the Edge that was at position p (now at p + 2 or p - 2) still has
\* that sticker bound to f, has its other sticker rebound from its side c to the
\* side the remap of f gives for c in direction d, and has both colours unchanged.
C19_EdgeRebound ==
  /\ \A f \in Faces : \A side \in {_side_get(cube, f)} : \A pos \in Hours :
       /\ side[pos][CUBE_TYPE] = CUBE_EDGE
       /\ Cardinality({k \in BindingFields(side[pos]) : side[pos][k] = f}) = 1
  /\ Called =>
       \A before \in {_side_get(prev, LastSide)} : \A after \in {_side_get(cube, LastSide)} :
         \A pos \in Hours : \A old \in {before[pos]} : \A new \in {after[Moved(pos, LastDirection)]} :
           /\ \A k \in BindingFields(old) :
                old[k] = LastSide =>
                  /\ new[k] = LastSide
                  /\ new[OtherEdgeFace(k)] \in Faces
                  /\ new[OtherEdgeFace(k)]
                       = _side_edge_face_get(LastDirection, LastSide, old[OtherEdgeFace(k)])
           /\ \A k \in StickerFields(old) : new[k] = old[k]

\* The third call turned Red clockwise on a cube that was not solved; before it Red's
\* ring had an Edge bound to Red in its first binding and one bound to Red in its
\* second, and an Edge whose colours were not those of the sides it was bound to; the
\* Edge that was at 0000 is at 0300 with another side in its other binding.
C19_Witness ==
  /\ Called /\ Len(last) = 3
  /\ last[3] = <<CUBE_RED, ROTATE_CLOCKWISE>>
  /\ prev # cube_solved
  /\ \A before \in {_side_get(prev, CUBE_RED)} : \A after \in {_side_get(cube, CUBE_RED)} :
       /\ \E pos \in Hours : before[pos][CUBE_EDGE_FACE_0] = CUBE_RED
       /\ \E pos \in Hours : before[pos][CUBE_EDGE_FACE_1] = CUBE_RED
       /\ \E pos \in Hours : <<before[pos][CUBE_EDGE_0], before[pos][CUBE_EDGE_1]>>
                               # <<before[pos][CUBE_EDGE_FACE_0], before[pos][CUBE_EDGE_FACE_1]>>
       /\ \E k \in {CUBE_EDGE_FACE_0, CUBE_EDGE_FACE_1} :
            /\ before[_SIDE_INDEX_0000][k] = CUBE_RED
            /\ after[_SIDE_INDEX_0300][k] = CUBE_RED
            /\ after[_SIDE_INDEX_0300][OtherEdgeFace(k)] # before[_SIDE_INDEX_0000][OtherEdgeFace(k)]

\* The arguments of the four _rotate_face_edge calls of _rotate_faces, in source
\* order: left corner, edge, right corner.
EdgeCalls ==
  <<<<_SIDE_INDEX_1030, _SIDE_INDEX_0000, _SIDE_INDEX_0130>>,
    <<_SIDE_INDEX_0130, _SIDE_INDEX_0300, _SIDE_INDEX_0430>>,
    <<_SIDE_INDEX_0430, _SIDE_INDEX_0600, _SIDE_INDEX_0730>>,
    <<_SIDE_INDEX_0730, _SIDE_INDEX_0900, _SIDE_INDEX_1030>>>>

\* The 24 orders in which the four calls can be made.
Orders == {o \in [1 .. 4 -> 1 .. 4] : \A a, b \in 1 .. 4 : a # b => o[a] # o[b]}

ThenCall(result, side_id_P, direction_P, call) ==
  ThenEdge(result, side_id_P, direction_P, call[1], call[2], call[3])

\* The remap pass of _rotate_faces with its four _rotate_face_edge calls made in the
\* given order, followed by the four _face_minus_cube_delay calls.
RemapEdgesInOrder(direction_P, side_id_P, side_P, order) ==
  Only({[slots |-> IF r.exit THEN r.slots ELSE RemoveDelays(r.slots), exit |-> r.exit]
        : r \in {ThenCall(
                   ThenCall(
                     ThenCall(
                       ThenCall([slots |-> _side_deepcopy(side_P), exit |-> FALSE],
                                side_id_P, direction_P, EdgeCalls[order[1]]),
                       side_id_P, direction_P, EdgeCalls[order[2]]),
                     side_id_P, direction_P, EdgeCalls[order[3]]),
                   side_id_P, direction_P, EdgeCalls[order[4]])}})

\* C20: after a call RotateSide(f, d) every Corner of f's ring (the one that was at
\* position p is at p + 2 or p - 2) has exactly one binding f, unchanged, and each of
\* its other two bindings g is the side the remap of f gives for g in direction d,
\* applied once and not twice; the four Edges processed in any of the 24 orders give
\* the cells the call stored; and in every reachable state every binding of every
\* cell of the three layers is one of the sides 1 .. 6, without the CUBE_DELAY mark.
C20_CornerReboundOnce ==
  /\ \A t \in Layers \X LayerIndices : \A cell \in {cube[t[1]][t[2]]} :
       \A k \in BindingFields(cell) : cell[k] \in Faces
  /\ Called =>
       \A before \in {_side_get(prev, LastSide)} : \A after \in {_side_get(cube, LastSide)} :
         /\ \A pos \in HalfHours : \A old \in {before[pos]} : \A new \in {after[Moved(pos, LastDirection)]} :
              /\ old[CUBE_TYPE] = CUBE_CORNER
              /\ Cardinality({k \in BindingFields(old) : old[k] = LastSide}) = 1
              /\ \A k \in BindingFields(old) :
                   /\ old[k] = LastSide => new[k] = LastSide
                   /\ old[k] # LastSide =>
                        \A once \in {_side_edge_face_get(LastDirection, LastSide, old[k])} :
                          /\ once \in Faces
                          /\ new[k] = once
                          /\ new[k] # _side_edge_face_get(LastDirection, LastSide, once)
         /\ \A order \in Orders : \A r \in {RemapEdgesInOrder(LastDirection, LastSide, before, order)} :
              /\ ~r.exit
              /\ \A pos \in 0 .. 7 : r.slots[pos] = after[Moved(pos, LastDirection)]

\* The third call turned Blue clockwise on a cube that was not solved; a Corner of
\* Blue's ring had, besides Blue, two bindings of which the remap takes the first to
\* the second, so that the first one rebound equals the old side of the next Edge;
\* after the call the first holds what the second held and the second has moved on.
C20_Witness ==
  /\ Called /\ Len(last) = 3
  /\ last[3] = <<CUBE_BLUE, ROTATE_CLOCKWISE>>
  /\ prev # cube_solved
  /\ \E pos \in HalfHours :
       \E old \in {_side_get(prev, CUBE_BLUE)[pos]} :
         \E new \in {_side_get(cube, CUBE_BLUE)[Moved(pos, ROTATE_CLOCKWISE)]} :
           \E k1, k2 \in BindingFields(old) :
             /\ k1 # k2 /\ old[k1] # CUBE_BLUE /\ old[k2] # CUBE_BLUE
             /\ _side_edge_face_get(ROTATE_CLOCKWISE, CUBE_BLUE, old[k1]) = old[k2]
             /\ new[k1] = old[k2]
             /\ new[k2] \in Faces \ {old[k1], old[k2], CUBE_BLUE}
             /\ <<old[CUBE_CORNER_0], old[CUBE_CORNER_1], old[CUBE_CORNER_2]>>
                  # <<old[CUBE_CORNER_FACE_0], old[CUBE_CORNER_FACE_1], old[CUBE_CORNER_FACE_2]>>

\* The kind of cell the constructor stores at index i of a layer.
KindAt(layer, i) ==
  IF layer = CUBE_MIDDLE
  THEN (IF i % 2 = 0 THEN CUBE_ID ELSE CUBE_EDGE)
  ELSE (IF i % 2 = 0 THEN CUBE_EDGE ELSE CUBE_CORNER)

\* C23: in every reachable state, Top and Bottom hold Edges at the even indices and
\* Corners at the odd ones, Middle holds Centers at the even indices and Edges at the
\* odd ones; and every face's ring holds Edges at its four on-the-hour positions and
\* Corners at 0130, 0430, 0730 and 1030.
C23_KindsConstant ==
  /\ \A t \in Layers \X LayerIndices : cube[t[1]][t[2]][CUBE_TYPE] = KindAt(t[1], t[2])
  /\ \A f \in Faces : \A side \in {_side_get(cube, f)} :
       /\ \A pos \in Hours : side[pos][CUBE_TYPE] = CUBE_EDGE
       /\ \A pos \in HalfHours : side[pos][CUBE_TYPE] = CUBE_CORNER

\* After three calls, the last of them a turn of Green that changed the layers, each
\* of the three layers holds a cell other than the one the constructor stored there,
\* and the kinds are still the constructor's.
C23_Witness ==
  /\ Called /\ Len(last) = 3
  /\ LastSide = CUBE_GREEN
  /\ cube # prev
  /\ \E i \in LayerIndices : cube[CUBE_TOP][i] # InitCube[CUBE_TOP][i]
  /\ \E i \in LayerIndices : cube[CUBE_MIDDLE][i] # InitCube[CUBE_MIDDLE][i]
  /\ \E i \in LayerIndices : cube[CUBE_BOTTOM][i] # InitCube[CUBE_BOTTOM][i]
  /\ \A t \in Layers \X LayerIndices : cube[t[1]][t[2]][CUBE_TYPE] = InitCube[t[1]][t[2]][CUBE_TYPE]

\* The slot <<layer, index>> of the layers where _side_put stores position pos of
\* side_id's ring (and _side_get reads it): the top row in Top, 0300 and 0900 in
\* Middle, the bottom row in Bottom, all eight in Top for White and in Bottom for
\* Yellow.
RingSlot(side_id, pos) ==
  <<IF side_id = CUBE_WHITE THEN CUBE_TOP
    ELSE IF side_id = CUBE_YELLOW THEN CUBE_BOTTOM
    ELSE IF pos \in {_SIDE_INDEX_0000, _SIDE_INDEX_0130, _SIDE_INDEX_1030} THEN CUBE_TOP
    ELSE IF pos \in {_SIDE_INDEX_0300, _SIDE_INDEX_0900} THEN CUBE_MIDDLE
    ELSE CUBE_BOTTOM,
    _SIDE_INDEX[side_id][pos]>>

\* The eight slots of side_id's ring.
RingSlots(side_id) == {RingSlot(side_id, pos) : pos \in 0 .. 7}

\* The faces the slot at index i of a layer touches: White for Top, Yellow for
\* Bottom, and Red for i in {7, 0, 1}, Green for {1, 2, 3}, Orange for {3, 4, 5}, Blue
\* for {5, 6, 7}.
Touches(layer, i) ==
  (IF layer = CUBE_TOP THEN {CUBE_WHITE} ELSE IF layer = CUBE_BOTTOM THEN {CUBE_YELLOW} ELSE {})
    \cup (IF i \in {7, 0, 1} THEN {CUBE_RED} ELSE {})
    \cup (IF i \in {1, 2, 3} THEN {CUBE_GREEN} ELSE {})
    \cup (IF i \in {3, 4, 5} THEN {CUBE_ORANGE} ELSE {})
    \cup (IF i \in {5, 6, 7} THEN {CUBE_BLUE} ELSE {})

\* The sides the cell is bound to.
Bindings(cell) == {cell[k] : k \in BindingFields(cell)}

\* C25: in every reachable state the sides bound on the cell at each slot are
\* exactly the faces the slot touches, one binding each (two at an Edge, three at a
\* Corner, one at a Center); for the slots of Edges and Corners these are the faces
\* whose ring holds the slot.
C25_BindingsMatchSlots ==
  \A t \in Layers \X LayerIndices : \A cell \in {cube[t[1]][t[2]]} :
    /\ Bindings(cell) = Touches(t[1], t[2])
    /\ Cardinality(Bindings(cell)) = Cardinality(BindingFields(cell))
    /\ cell[CUBE_TYPE] # CUBE_ID => Bindings(cell) = {f \in Faces : t \in RingSlots(f)}

\* The third call turned Blue counter-clockwise on a cube that was not solved, and the
\* Corner now at Top index 5 came from Bottom index 5 with the colours it had there:
\* its bindings were Yellow, Blue and Orange and are White, Orange and Blue.
C25_Witness ==
  /\ Called /\ Len(last) = 3
  /\ last[3] = <<CUBE_BLUE, ROTATE_COUNTER>>
  /\ prev # cube_solved
  /\ Piece(cube[CUBE_TOP][5]) = Piece(prev[CUBE_BOTTOM][5])
  /\ Bindings(prev[CUBE_BOTTOM][5]) = {CUBE_YELLOW, CUBE_BLUE, CUBE_ORANGE}
  /\ Bindings(cube[CUBE_TOP][5]) = {CUBE_WHITE, CUBE_ORANGE, CUBE_BLUE}
  /\ Piece(cube[CUBE_TOP][5]) # Piece(InitCube[CUBE_TOP][5])

\* C26: a call RotateSide(f, d) leaves the cell at each of the 16 slots outside f's
\* ring as it was before the call; the ring has 8 slots, for every face.
C26_OnlyRingChanges ==
  /\ \A f \in Faces : Cardinality(RingSlots(f)) = 8
  /\ Called =>
       /\ Cardinality((Layers \X LayerIndices) \ RingSlots(LastSide)) = 16
       /\ \A t \in (Layers \X LayerIndices) \ RingSlots(LastSide) :
            cube[t[1]][t[2]] = prev[t[1]][t[2]]

\* The third call turned Yellow clockwise on a cube that was not solved: all eight
\* cells of Yellow's ring changed, and a cell outside it differs from the one the
\* constructor stored there.
C26_Witness ==
  /\ Called /\ Len(last) = 3
  /\ last[3] = <<CUBE_YELLOW, ROTATE_CLOCKWISE>>
  /\ \A t \in RingSlots(CUBE_YELLOW) : cube[t[1]][t[2]] # prev[t[1]][t[2]]
  /\ \E t \in (Layers \X LayerIndices) \ RingSlots(CUBE_YELLOW) :
       /\ cube[t[1]][t[2]] # InitCube[t[1]][t[2]]
       /\ cube[t[1]][t[2]] = prev[t[1]][t[2]]

\* The positions of the row of a lateral face next to White, and of the row next to
\* Yellow.
TopRow == {_SIDE_INDEX_1030, _SIDE_INDEX_0000, _SIDE_INDEX_0130}
BottomRow == {_SIDE_INDEX_0430, _SIDE_INDEX_0600, _SIDE_INDEX_0730}

\* <<from, to>>: the lateral face whose row a clockwise turn of White, or of Yellow,
\* carries to which lateral face.
WhiteCarries ==
  {<<CUBE_RED, CUBE_GREEN>>, <<CUBE_GREEN, CUBE_ORANGE>>,
   <<CUBE_ORANGE, CUBE_BLUE>>, <<CUBE_BLUE, CUBE_RED>>}
YellowCarries ==
  {<<CUBE_RED, CUBE_BLUE>>, <<CUBE_BLUE, CUBE_ORANGE>>,
   <<CUBE_ORANGE, CUBE_GREEN>>, <<CUBE_GREEN, CUBE_RED>>}

\* C27: after a call RotateSide(White, clockwise) the colour Green, Orange, Blue and
\* Red show at 1030, 0000 and 0130 is the colour Red, Green, Orange and Blue showed
\* at the same position before the call; after RotateSide(Yellow, clockwise) the
\* colour Blue, Orange, Green and Red show at 0430, 0600 and 0730 is the colour Red,
\* Blue, Orange and Green showed there before the call.
C27_RowsCarried ==
  /\ (Called /\ last[Len(last)] = <<CUBE_WHITE, ROTATE_CLOCKWISE>>) =>
       \A m \in WhiteCarries : \A p \in TopRow :
         /\ VisibleColor(prev, m[1], p) \in Faces
         /\ VisibleColor(cube, m[2], p) = VisibleColor(prev, m[1], p)
  /\ (Called /\ last[Len(last)] = <<CUBE_YELLOW, ROTATE_CLOCKWISE>>) =>
       \A m \in YellowCarries : \A p \in BottomRow :
         /\ VisibleColor(prev, m[1], p) \in Faces
         /\ VisibleColor(cube, m[2], p) = VisibleColor(prev, m[1], p)

\* The third call turned White clockwise on a cube that an earlier clockwise turn of
\* Yellow and a turn of a lateral face had scrambled: the row of Red next to White
\* showed two or more colours, and Green shows them now where Red showed them.
C27_Witness ==
  /\ Called /\ Len(last) = 3
  /\ <<CUBE_YELLOW, ROTATE_CLOCKWISE>> \in {last[1], last[2]}
  /\ last[3] = <<CUBE_WHITE, ROTATE_CLOCKWISE>>
  /\ Cardinality({VisibleColor(prev, CUBE_RED, p) : p \in TopRow}) >= 2
  /\ \E p \in TopRow : VisibleColor(cube, CUBE_GREEN, p) # VisibleColor(prev, CUBE_GREEN, p)
  /\ \A p \in TopRow : VisibleColor(cube, CUBE_GREEN, p) = VisibleColor(prev, CUBE_RED, p)
  /\ \E p \in BottomRow : VisibleColor(cube, CUBE_BLUE, p) # CUBE_BLUE

\* C28: a caller turned Red (or Green) in some direction; turning Orange (or Blue)
\* afterwards, in either direction, gives the layers that turning Orange (or Blue)
\* first and Red (or Green) second gives from the same state; the rings of Red and
\* Orange share no slot, and neither do the rings of Green and Blue.
C28_LateralOppositesCommute ==
  /\ RingSlots(CUBE_RED) \cap RingSlots(CUBE_ORANGE) = {}
  /\ RingSlots(CUBE_GREEN) \cap RingSlots(CUBE_BLUE) = {}
  /\ (Called /\ LastSide \in {CUBE_RED, CUBE_GREEN}) =>
       \A d2 \in Directions :
         \A o \in {RotateSide(prev, Opposite(LastSide), d2)} :
           /\ ~o.exit
           /\ Completes(RotateSide(cube, Opposite(LastSide), d2),
                        Rotated(o.cube, LastSide, LastDirection))

\* From a cube that is not solved a caller turned Green counter-clockwise; Blue
\* clockwise changes the layers further, and the other order gives the same layers,
\* which a turn of Blue alone does not give.
C28_Witness ==
  /\ Called /\ Len(last) = 3
  /\ last[3] = <<CUBE_GREEN, ROTATE_COUNTER>>
  /\ prev # cube_solved
  /\ cube # prev
  /\ Rotated(cube, CUBE_BLUE, ROTATE_CLOCKWISE) # cube
  /\ Rotated(cube, CUBE_BLUE, ROTATE_CLOCKWISE) # Rotated(prev, CUBE_BLUE, ROTATE_CLOCKWISE)
  /\ Rotated(cube, CUBE_BLUE, ROTATE_CLOCKWISE)
       = Rotated(Rotated(prev, CUBE_BLUE, ROTATE_CLOCKWISE), CUBE_GREEN, ROTATE_COUNTER)

\* The ring has an on-the-hour cell with no binding to side_id in its two Edge
\* binding fields.
EdgeUnbound(side, side_id) ==
  \E pos \in Hours :
    side[pos][CUBE_EDGE_FACE_0] # side_id /\ side[pos][CUBE_EDGE_FACE_1] # side_id

\* The ring has an Edge bound to side_id whose left or right neighbour has none of
\* its three Corner binding fields bound to the Edge's other side.
CornerUnbound(side, side_id) ==
  \E n \in 1 .. 4 : \E k \in {CUBE_EDGE_FACE_0, CUBE_EDGE_FACE_1} :
    /\ side[EdgeCalls[n][2]][k] = side_id
    /\ \E corner \in {side[EdgeCalls[n][1]], side[EdgeCalls[n][3]]} :
         \A b \in {CUBE_CORNER_FACE_0, CUBE_CORNER_FACE_1, CUBE_CORNER_FACE_2} :
           corner[b] # side[EdgeCalls[n][2]][OtherEdgeFace(k)]

\* C22: a call RotateSide(f, d) with one of the six faces, made when f's ring had an
\* Edge with no sticker bound to f or a Corner with no sticker bound to the other
\* side of a neighbouring Edge, ended the process and left the layers as they were.
C22_MalformedIsFatal ==
  (/\ pc = "caller" /\ Len(last) >= 1
   /\ LastSide \in Faces
   /\ \E side \in {_side_get(prev, LastSide)} :
        EdgeUnbound(side, LastSide) \/ CornerUnbound(side, LastSide))
    => (status \in Fatal /\ cube = prev)

\* A caller turned White clockwise when White's ring had an Edge not bound to White
\* and, next to an Edge bound to White, a Corner not bound to that Edge's other
\* side: the call returned, and the layers are not the ones before the call.
C22_Witness ==
  /\ pc = "caller" /\ Len(last) >= 2
  /\ last[Len(last)] = <<CUBE_WHITE, ROTATE_CLOCKWISE>>
  /\ \A side \in {_side_get(prev, CUBE_WHITE)} :
       /\ EdgeUnbound(side, CUBE_WHITE)
       /\ CornerUnbound(side, CUBE_WHITE)
       /\ \A pos \in Hours : side[pos][CUBE_TYPE] = CUBE_EDGE
       /\ \A pos \in HalfHours : side[pos][CUBE_TYPE] = CUBE_CORNER
  /\ status = "running"
  /\ cube # prev

\* The <<side 2, orientation>> pairs for which Y_Permutator selects the clockwise
\* variant, and those for which it selects the counter variant.
ClockwisePairs ==
  {<<CUBE_GREEN, CUBE_RED>>, <<CUBE_ORANGE, CUBE_GREEN>>,
   <<CUBE_BLUE, CUBE_ORANGE>>, <<CUBE_RED, CUBE_BLUE>>}
CounterPairs ==
  {<<CUBE_BLUE, CUBE_RED>>, <<CUBE_RED, CUBE_GREEN>>,
   <<CUBE_GREEN, CUBE_ORANGE>>, <<CUBE_ORANGE, CUBE_BLUE>>}

\* The layers after RotateSide(side1, bracket), RotateSide(side2, mid),
\* RotateSide(side1, mid), RotateSide(side2, bracket), in that order.
FourRotations(c, side1, side2, bracket, mid) ==
  Rotated(Rotated(Rotated(Rotated(c, side1, bracket), side2, mid), side1, mid), side2, bracket)

\* C30: a call Y_Permutator(White, side 2, orientation) with one of the eight valid
\* pairs returns, and leaves the layers that the four RotateSide calls (White,
\* bracket), (side 2, mid), (White, mid), (side 2, bracket) give from the layers
\* before the call, with bracket clockwise and mid counter-clockwise for the
\* clockwise variant and the other way round for the counter variant.
C30_FourRotations ==
  (/\ pc = "permutator"
   /\ last[Len(last)][1] = CUBE_WHITE
   /\ <<last[Len(last)][2], last[Len(last)][3]>> \in ClockwisePairs \cup CounterPairs)
    => /\ status = "running"
       /\ cube = IF <<last[Len(last)][2], last[Len(last)][3]>> \in ClockwisePairs
                 THEN FourRotations(prev, CUBE_WHITE, last[Len(last)][2], ROTATE_CLOCKWISE, ROTATE_COUNTER)
                 ELSE FourRotations(prev, CUBE_WHITE, last[Len(last)][2], ROTATE_COUNTER, ROTATE_CLOCKWISE)

\* After two RotateSide calls a caller requested Y_Permutator(White, Green, Red): the
\* process ended with a TypeError and the layers are the ones before the call, which
\* are not the ones the four rotations give.
C30_Witness ==
  /\ pc = "permutator" /\ Len(last) = 3
  /\ last[3] = <<CUBE_WHITE, CUBE_GREEN, CUBE_RED>>
  /\ status = "TypeError"
  /\ prev # cube_solved
  /\ cube = prev
  /\ cube # FourRotations(prev, CUBE_WHITE, CUBE_GREEN, ROTATE_CLOCKWISE, ROTATE_COUNTER)

\* The caller is between the first and the last step of a call.
InCall(t) == calls[t].at \in {"read", "remapped", "permuted"}

\* C21: with RotateSide followed as read-ring, face-remap, position-permute and
\* write-back, the layers are the ones at the start of the call for as long as the
\* call is under way, and the only step that changes them is the write-back; between
\* calls the layers hold the ring of the newest call with every cell moved and
\* rebound, as the whole call leaves it.
C21_AtomicWriteBack ==
  /\ [](pc = "steps" =>
          /\ InCall(1) => cube = prev
          /\ (~InCall(1) /\ Len(last) >= 1) => Completes(RotateSide(prev, LastSide, LastDirection), cube))
  /\ [][(pc = "steps" /\ cube' # cube) => (calls[1].at = "permuted" /\ calls'[1].at = "idle")]_vars

\* The third call has made its two passes and not yet written back: its ring differs
\* from the ring the layers hold, which are the layers the call started from and not
\* the constructor's.
C21_Witness ==
  /\ pc = "steps"
  /\ calls[1].at = "permuted" /\ calls[1].made = 2
  /\ cube = prev
  /\ cube # InitCube
  /\ calls[1].side # _side_get(cube, calls[1].side_id)
  /\ \E pos \in 0 .. 7 : scratch[pos] # _side_get(cube, calls[1].side_id)[pos]

\* Both callers have made their call.
BothReturned == \A t \in Callers : calls[t].made = 1 /\ calls[t].at = "idle"

\* The layers after the call of caller a and then the call of caller b, each as a
\* whole, from the layers the two callers started from.
SerialOrder(a, b) ==
  Rotated(Rotated(marks[1], calls[a].side_id, calls[a].direction),
          calls[b].side_id, calls[b].direction)

\* C24: two callers share the object and make one RotateSide call each. When both
\* take the lock for their whole call, no caller is inside a call that is not the
\* holder's, and after both calls the layers are the ones one of the two serial
\* orders of the calls gives. (That the steps of callers without the lock reach
\* layers of neither serial order is the reachable state C24_Witness.)
C24_LockGivesSerialOrder ==
  (pc = "shared" /\ lock.whole_call) =>
    /\ \A t \in Callers : InCall(t) => lock.holder = t
    /\ BothReturned => cube \in {SerialOrder(1, 2), SerialOrder(2, 1)}

\* Without the lock: one caller turned White and the other Red, faces that share
\* three slots, with their steps interleaved; both calls returned, and the layers
\* are those of neither serial order.
C24_Witness ==
  /\ pc = "shared" /\ ~lock.whole_call
  /\ BothReturned
  /\ calls[1].side_id = CUBE_WHITE /\ calls[2].side_id = CUBE_RED
  /\ RingSlots(CUBE_WHITE) \cap RingSlots(CUBE_RED) # {}
  /\ cube \notin {SerialOrder(1, 2), SerialOrder(2, 1)}

\* RotateSide( side_id_P, direction_P ) on layers layers when the scratch slots
\* hold sc at the call: the four statements of lines 652 .. 657, each pass making
\* its own _side_deepcopy call on the slots the statement before left.
RotateSideFrom(sc, layers, side_id_P, direction_P) ==
  Only({Only({IF f.exit
              THEN [cube |-> layers, scratch |-> f.scratch, exit |-> TRUE]
              ELSE Only({[cube |-> _side_put(layers, side_id_P, r.side),
                          scratch |-> r.scratch, exit |-> FALSE]
                         : r \in {PermuteRing(direction_P, side_id_P, f.side,
                                              SlotsAfterDeepcopy(f.scratch, f.side))}})
              : f \in {RemapRing(direction_P, side_id_P, side,
                                 SlotsAfterDeepcopy(sc, side))}})
        : side \in {_side_get(layers, side_id_P)}})

\* The scratch slots of a new object.
NewSlots == [pos \in 0 .. 7 |-> CUBE_NIL]

\* Other contents of the scratch slots than sc: those of a new object, those of sc
\* one position on, and the cells of the solved cube's Yellow ring.
OtherSlots(sc) ==
  {NewSlots,
   [pos \in 0 .. 7 |-> sc[(pos + 1) % 8]],
   _side_deepcopy(_side_get(InitCube, CUBE_YELLOW))}

\* C29: the layers after RotateSide( f, d ) depend on the layers before the call,
\* f and d only, never on what the scratch slots held. Between calls, for every
\* face and direction, the call started with the slots as the earlier calls left
\* them and the call started with other slots end with the same layers; and the
\* call just made, which started with the slots the calls before it left, ended
\* with the layers the call gives on a new object's slots.
C29_ScratchNeverRead ==
  (pc = "steps" /\ ~InCall(1)) =>
    /\ \A side_id \in Faces, direction \in Directions :
         \A sc \in OtherSlots(scratch) :
           RotateSideFrom(sc, cube, side_id, direction).cube
             = RotateSideFrom(scratch, cube, side_id, direction).cube
    /\ Len(last) >= 1 =>
         cube = RotateSideFrom(NewSlots, prev, LastSide, LastDirection).cube

\* Two runs from equal layers with different scratch contents: a third call that
\* started from the solved layers, reached again by the two calls before it, with
\* the slots those calls left, and ended with the layers the same call gives on a
\* new object.
C29_Witness ==
  /\ pc = "steps" /\ ~InCall(1)
  /\ Len(last) = 3
  /\ prev = InitCube
  /\ scratch # NewSlots
  /\ cube # InitCube
  /\ cube = RotateSideFrom(NewSlots, InitCube, LastSide, LastDirection).cube

====
